---------------------------- MODULE Spec2Model ----------------------------
(***************************************************************************)
(* Verification model of the file-based ETL evaluation framework of        *)
(* softprobe/etl-agent:                                                    *)
(*                                                                         *)
(*   - FileBasedETLEvaluator (src/tests/file_based_evaluator.py): the five *)
(*     component evaluators and the overall score of                       *)
(*     _evaluate_complete_pipeline, under specification Spec;              *)
(*   - evaluate_multi_step_etl_process together with the workspace         *)
(*     utilities (src/app/utils/workspace.py) and the message stream of    *)
(*     ClaudeETLAgent.chat_stream (src/app/services/claude_service.py),    *)
(*     under specification SpecEpisode;                                    *)
(*   - the four file validators of RealTimeETLMonitor                      *)
(*     (src/tests/etl_monitoring.py), under specification SpecValidate;    *)
(*   - the watch session of RealTimeETLMonitor, under specification        *)
(*     SpecMonitor;                                                        *)
(*   - FileBasedETLEvaluator.capture_workspace_state racing with a writer  *)
(*     of the workspace, under specification SpecSnapshot;                 *)
(*   - _evaluate_process_quality over file creation orders, under          *)
(*     specification SpecProcess;                                          *)
(*   - ETLFileWatcher racing with a writer, under specification            *)
(*     SpecWatcher.                                                        *)
(*                                                                         *)
(* Scores are kept as integers in thousandths of a point (5.0 = 5000).     *)
(* The entries of the overall score list are kept in units of 10^-5 point  *)
(* (a score in thousandths times a weight in hundredths), and the overall  *)
(* score as the exact fraction overall_num / overall_den of such units.    *)
(***************************************************************************)
EXTENDS Integers, Sequences, FiniteSets, TLC

VARIABLES
    evaluation_mode,  \* FileBasedETLEvaluator.evaluation_mode
    workspace,        \* the files under workspace_dir: path -> content
    call,             \* the arguments of the _evaluate_complete_pipeline call
    report,           \* the dict returned by _evaluate_complete_pipeline
    clock,            \* datetime.now(), in milliseconds
    dirs,             \* the workspace base directory: instance id -> owners
    episodes,         \* evaluate_multi_step_etl_process calls in progress
    validation,       \* a validator call: validator, file, ValidationResult
    monitor,          \* a RealTimeETLMonitor and the observer it owns
    scan              \* a capture_workspace_state call and the directory it scans

vars == <<evaluation_mode, workspace, call, report, clock, dirs, episodes,
          validation, monitor, scan>>

pipelineVars == <<evaluation_mode, workspace, call, report>>
episodeVars == <<clock, dirs, episodes>>
harnessVars == <<validation, monitor, scan>>

----------------------------------------------------------------------------
(* Bounds of the model.                                                    *)

\* Largest number of fields of a table of a schema document.
MaxFields == 3
\* Largest number of entity names of a schema document.
MaxEntities == 2
\* Number of evaluation episodes that may run side by side.
NumEpisodes == 2
\* Last millisecond of the clock.
MaxClock == 2
\* Largest number of messages the agent sends in one episode.
MaxMessages == 2
\* Largest number of content blocks of one message.
MaxBlocks == 2
\* Largest overall score the pass decision is applied to, in points.
MaxOverall == 6
\* Largest number of fields without a "type" key in a validated schema file.
MaxUntyped == 12
\* Largest number of columns, and of data rows, of a validated CSV file.
MaxColumns == 3
MaxRows == 2
\* Largest number of commas of a validated DDL file.
MaxCommas == 2
\* Largest number of file events the watcher delivers to a monitor.
MaxEvents == 3
\* Largest number of start_monitoring calls on a monitor.
MaxStarts == 3
\* Files created during an episode of SpecProcess.
MaxCreated == 5
\* Segments (texts, fenced blocks, bare objects) of an agent response.
MaxSegments == 2

----------------------------------------------------------------------------
(* Small helpers.                                                          *)

Min(a, b) == IF a < b THEN a ELSE b
Max(a, b) == IF a > b THEN a ELSE b

RECURSIVE SumSeq(_)
SumSeq(s) == IF s = <<>> THEN 0 ELSE Head(s) + SumSeq(Tail(s))

\* len([s for s in scores if s > 0])
CountPositive(s) == Cardinality({i \in DOMAIN s : s[i] > 0})

\* The sequences that list every element of the finite set S exactly once.
Orderings(S) ==
    {q \in [1..Cardinality(S) -> S] : \A i, j \in DOMAIN q : q[i] = q[j] => i = j}

Modes == {"incremental", "full_pipeline"}

----------------------------------------------------------------------------
(* Paths.  A relative path is its directory, the "_"-separated words of    *)
(* its stem, and its extension; the words are atomic, so a substring test  *)
(* of the source is a test on words.                                       *)

SchemaOutputJson == [dir |-> "", parts |-> <<"schema", "output">>, ext |-> "json"]
OrdersSchemaJson == [dir |-> "", parts |-> <<"orders", "schema">>, ext |-> "json"]
SchemaDirJson == [dir |-> "schema", parts |-> <<"tables">>, ext |-> "json"]
EtlScriptPy == [dir |-> "etl", parts |-> <<"etl", "orders">>, ext |-> "py"]
OutputCsv == [dir |-> "output", parts |-> <<"orders", "output">>, ext |-> "csv"]
DdlSql == [dir |-> "ddl", parts |-> <<"create", "tables">>, ext |-> "sql"]
InputJson == [dir |-> "data", parts |-> <<"ecommerce", "orders">>, ext |-> "json"]

SchemaPaths == {SchemaOutputJson, OrdersSchemaJson, SchemaDirJson}
ArtifactPaths == SchemaPaths \cup {EtlScriptPy, OutputCsv, DdlSql}
Paths == ArtifactPaths \cup {InputJson}

\* word in path.lower()
PathContains(p, word) == p.dir = word \/ \E i \in DOMAIN p.parts : p.parts[i] = word
\* word in the file name of the path
NameContains(p, word) == \E i \in DOMAIN p.parts : p.parts[i] = word
\* the file name starts with word
NameStartsWith(p, word) == p.parts[1] = word

Absent == [kind |-> "absent"]
Present(ws) == {p \in Paths : ws[p].kind # "absent"}

----------------------------------------------------------------------------
(* File contents, by the features the evaluators read.                     *)

\* A file json.load cannot parse.
CorruptJson == [kind |-> "corrupt"]
\* A file open().read() cannot decode, or that cannot be opened.
Unreadable == [kind |-> "unreadable"]
\* The scenario's input file copied to data/.
InputData == [kind |-> "data"]

\* Declared confidence.overall values in hundredths; -1: no "confidence" key.
Confidences == {-1, 50, 75, 85, 95}

\* A schema document: which top-level keys it has; n_entities entity names of
\* which n_shared are also table keys; n_tables tables, each with a "fields"
\* map of n_fields fields of which n_well carry both "type" and
\* "bigquery_type" (the others carry neither).
SchemaDoc(he, ne, ns, ht, nt, nf, nw, htr, c) ==
    [kind |-> "schema", has_entities |-> he, n_entities |-> ne, n_shared |-> ns,
     has_tables |-> ht, n_tables |-> nt, n_fields |-> nf, n_well |-> nw,
     has_transformations |-> htr, confidence |-> c]

SchemaDocs ==
    {SchemaDoc(he, ne, ns, ht, nt, nf, nw, htr, c) :
        he \in BOOLEAN, ne \in 0..MaxEntities, ns \in 0..MaxEntities,
        ht \in BOOLEAN, nt \in 0..1, nf \in 0..MaxFields, nw \in 0..MaxFields,
        htr \in BOOLEAN, c \in Confidences}

\* The documents of SchemaDocs in normal form: absent parts are zero, a
\* document shares no more names than it has, and the fields of a table are
\* either all well defined or all bare.
WellFormedDoc(d) ==
    /\ (~d.has_entities => d.n_entities = 0)
    /\ d.n_shared <= Min(d.n_entities, d.n_tables)
    /\ (~d.has_tables => d.n_tables = 0)
    /\ (d.n_tables = 0 => d.n_fields = 0)
    /\ d.n_well \in {0, d.n_fields}

\* The documents an incremental episode's agent may write.
IncrementalDocs == {d \in SchemaDocs : WellFormedDoc(d)}

\* The documents a full_pipeline episode's agent may write: the evaluators of
\* that mode read only whether the document parses and its field names.
FullPipelineDocs ==
    {d \in IncrementalDocs :
        /\ d.has_entities /\ d.n_entities = 1 /\ d.n_shared = d.n_tables
        /\ d.has_tables /\ d.has_transformations /\ d.confidence = 95
        /\ d.n_fields \in {0, MaxFields} /\ d.n_well = d.n_fields}

\* An ETL script: whether it contains both "try:" and "except:", and how many
\* of the schema's field names it quotes as string literals.
EtlScripts ==
    {[kind |-> "etl", try_except |-> t, referenced |-> r] :
        t \in BOOLEAN, r \in {0, MaxFields}}

\* The scenario's expected_columns (TEST_SCENARIOS lists four per scenario).
NumExpectedColumns == 4

\* A CSV output: how many of the expected columns are among its headers.
CsvOutputs == {[kind |-> "csv", present |-> n] : n \in {0, 2, NumExpectedColumns}}
\* What the agent may write to output/: a CSV, or a file read_csv cannot parse.
CsvContents == CsvOutputs \cup {Unreadable}

\* A DDL file: whether its upper-cased text contains "CREATE TABLE", and
\* whether it contains "BIGQUERY" or "DATASET".
DdlFiles ==
    {[kind |-> "ddl", create_table |-> ct, bigquery |-> bq] :
        ct \in BOOLEAN, bq \in BOOLEAN}

\* What the subprocess running the first ETL script does: exit code 0, a
\* non-zero exit code, or subprocess.run raising (TimeoutExpired after 30 s,
\* or the interpreter cannot be launched).
RunOutcomes == {"ok", "failed", "timeout"}

----------------------------------------------------------------------------
(* FileBasedETLEvaluator._evaluate_schema_file_quality.                    *)

\* The quality of the content of a schema file; a file that is missing,
\* unreadable or not JSON makes the try block raise, which returns 0.0.
SchemaFileQuality(doc) ==
    IF doc.kind # "schema" THEN 0
    ELSE
        LET sections == (IF doc.has_entities THEN 500 ELSE 0)
                        + (IF doc.has_tables THEN 1000 ELSE 0)
                        + (IF doc.has_transformations THEN 500 ELSE 0)
            perTable == (IF doc.n_fields >= 3 THEN 500 ELSE 0)
                        + (IF 10 * doc.n_well >= 8 * doc.n_fields THEN 1000 ELSE 0)
            tables == IF doc.has_tables THEN doc.n_tables * perTable ELSE 0
            conf == IF doc.confidence >= 80 THEN 500 ELSE 0
            allKeys == IF /\ doc.has_entities /\ doc.has_tables
                          /\ doc.has_transformations /\ doc.confidence # -1
                       THEN 1000 ELSE 0
        IN  Min(5000, sections + tables + conf + allKeys)


----------------------------------------------------------------------------
(* The file listings the evaluators use.  Each returns the matching files  *)
(* of the workspace; the agent writes at most one file of each kind, so    *)
(* the "first" match the source takes is the only one.                     *)

First(S) == CHOOSE p \in S : TRUE

\* [f for f in files if "schema" in f.lower() and f.endswith(".json")]
SchemaFilesByName(files) == {p \in files : PathContains(p, "schema") /\ p.ext = "json"}
\* [f for f in files if f.endswith(".py") and "etl" in f.lower()]
EtlFilesByName(files) == {p \in files : p.ext = "py" /\ PathContains(p, "etl")}
CsvFilesByName(files) == {p \in files : p.ext = "csv"}
DdlFilesByName(files) == {p \in files : p.ext = "sql"}

\* workspace_dir.glob("**/schema_output.json")
GlobSchemaOutput(ws) ==
    {p \in Present(ws) : p.parts = <<"schema", "output">> /\ p.ext = "json"}
\* workspace_dir.glob("**/*schema*.json")
GlobAnySchema(ws) == {p \in Present(ws) : NameContains(p, "schema") /\ p.ext = "json"}
\* workspace_dir.glob("**/schema*.json")
GlobSchemaPrefix(ws) == {p \in Present(ws) : NameStartsWith(p, "schema") /\ p.ext = "json"}
\* (workspace_dir / sub).glob("*." + ext)
GlobIn(ws, sub, ext) == {p \in Present(ws) : p.dir = sub /\ p.ext = ext}
\* workspace_dir.glob("**/*." + ext)
GlobExt(ws, ext) == {p \in Present(ws) : p.ext = ext}

----------------------------------------------------------------------------
(* FileBasedETLEvaluator._evaluate_process_quality.                        *)

\* The AgentAction list of a recorder that saw the files of q created one per
\* tool use, in the order of q, in a workspace that held the input file.
ActionsCreating(q) ==
    [i \in DOMAIN q |->
        [files_before |-> {InputJson} \cup {q[j] : j \in 1..(i - 1)},
         files_after |-> {InputJson} \cup {q[j] : j \in 1..i}]]

\* file_creation_sequence: each action's new files, action after action.
RECURSIVE FileCreationSequence(_)
FileCreationSequence(actions) ==
    IF actions = <<>> THEN <<>>
    ELSE LET new == Head(actions).files_after \ Head(actions).files_before
         IN  First(Orderings(new)) \o FileCreationSequence(Tail(actions))

\* re.match(expected_patterns[i], file_path), i counted from 0.
MatchesPattern(i, p) ==
    CASE i = 0 -> /\ p.ext = "json"
                  /\ (p.dir = "schema" \/ (p.dir = "" /\ NameStartsWith(p, "schema")))
      [] i = 1 -> p.dir = "etl" /\ p.ext = "py"
      [] i = 2 -> p.dir = "output" /\ p.ext = "csv"
      [] i = 3 -> p.dir = "ddl" /\ p.ext = "sql"

\* What pattern i adds to sequence_score: 1.25 when its first match stands at
\* an index j >= i (from 0), nothing when it stands earlier, -0.5 without one.
PatternPoints(i, seq) ==
    LET hits == {j \in DOMAIN seq : MatchesPattern(i, seq[j])}
    IN  IF hits = {} THEN -500
        ELSE LET j == CHOOSE h \in hits : \A g \in hits : h <= g
             IN  IF j - 1 >= i THEN 1250 ELSE 0

SequenceScore(seq, mode) ==
    IF mode = "incremental"
    THEN IF \E j \in DOMAIN seq :
                seq[j].parts = <<"schema", "output">> /\ seq[j].ext = "json"
         THEN 5000
         ELSE IF \E j \in DOMAIN seq : PathContains(seq[j], "schema")
              THEN 3000 ELSE 1000
    ELSE PatternPoints(0, seq) + PatternPoints(1, seq)
         + PatternPoints(2, seq) + PatternPoints(3, seq)

EvaluateProcessQuality(actions, mode) ==
    IF actions = <<>>
    THEN [score |-> 0, issues |-> {"No actions recorded"},
          file_creation_sequence |-> <<>>]
    ELSE LET seq == FileCreationSequence(actions)
             sequence_score == SequenceScore(seq, mode)
             threshold == IF mode = "incremental" THEN 2500 ELSE 3500
         IN  [score |-> Max(0, Min(5000, sequence_score)),
              issues |-> IF sequence_score >= threshold THEN {}
                         ELSE IF mode = "incremental"
                              THEN {"Schema generation incomplete or missing"}
                              ELSE {"Suboptimal file creation sequence"},
              file_creation_sequence |-> seq]

----------------------------------------------------------------------------
(* FileBasedETLEvaluator._evaluate_file_outputs.  final_state is the       *)
(* snapshot of the workspace; the schema file's content is read from the   *)
(* workspace.  The score is returned as computed: nothing clamps it.       *)

EvaluateFileOutputs(ws, mode) ==
    LET files == Present(ws)
        schema_files == SchemaFilesByName(files)
        etl_files == EtlFilesByName(files)
        csv_files == CsvFilesByName(files)
        ddl_files == DdlFilesByName(files)
    IN  IF mode = "incremental"
        THEN [score |->
                (IF schema_files # {}
                 THEN SchemaFileQuality(ws[First(schema_files)]) ELSE 0)
                + (IF etl_files # {} THEN 300 ELSE 0)
                + (IF csv_files # {} THEN 300 ELSE 0)
                + (IF ddl_files # {} THEN 400 ELSE 0)]
        ELSE [score |->
                (IF schema_files # {} THEN 1250 ELSE 0)
                + (IF etl_files # {} THEN 1250 ELSE 0)
                + (IF csv_files # {} THEN 1250 ELSE 0)
                + (IF ddl_files # {} THEN 1250 ELSE 0)]

----------------------------------------------------------------------------
(* FileBasedETLEvaluator._evaluate_pipeline_functionality.  run is what    *)
(* the subprocess of the first ETL script does.                            *)

\* col_coverage * 2.5 for a CSV with n of the expected columns.
ColumnPoints(n) == (n * 2500) \div NumExpectedColumns

\* EvaluatePipelineFunctionality of full_pipeline mode with an exception of
\* subprocess.run taken for a non-zero exit code, and no CSV check.
FunctionalityWithoutHandler(ws, mode, run) ==
    IF GlobIn(ws, "etl", "py") = {}
    THEN [score |-> 0, issues |-> {"No ETL scripts found"}]
    ELSE IF run = "ok" THEN [score |-> 2500, issues |-> {}]
    ELSE [score |-> 0, issues |-> {"ETL execution failed"}]

EvaluatePipelineFunctionality(ws, mode, run) ==
    IF mode = "incremental"
    THEN LET schema_files == IF GlobSchemaOutput(ws) # {} THEN GlobSchemaOutput(ws)
                             ELSE GlobAnySchema(ws)
         IN  IF schema_files # {}
             THEN [score |-> Min(5000, SchemaFileQuality(ws[First(schema_files)])),
                   issues |-> {}]
             ELSE [score |-> 0, issues |-> {"No schema files found"}]
    ELSE LET etl_files == GlobIn(ws, "etl", "py")
             csv_files == GlobIn(ws, "output", "csv")
             csv == IF csv_files # {} THEN ws[First(csv_files)] ELSE Absent
         IN  IF etl_files # {} /\ run = "timeout"
             \* subprocess.run raised: the outer handler, nothing after it runs
             THEN [score |-> 0, issues |-> {"Pipeline functionality test failed"}]
             ELSE LET etl_score == IF etl_files # {} /\ run = "ok" THEN 2500 ELSE 0
                      etl_issues == IF etl_files = {} THEN {"No ETL scripts found"}
                                    ELSE IF run = "ok" THEN {}
                                    ELSE {"ETL execution failed"}
                      csv_score == IF csv.kind = "csv" THEN ColumnPoints(csv.present)
                                   ELSE 0
                      csv_issues ==
                          IF csv_files = {} THEN {"No CSV output files found"}
                          ELSE IF csv.kind # "csv" THEN {"CSV validation failed"}
                          ELSE IF csv.present < NumExpectedColumns
                               THEN {"Missing expected columns"} ELSE {}
                  IN  [score |-> Min(5000, etl_score + csv_score),
                       issues |-> etl_issues \cup csv_issues]

----------------------------------------------------------------------------
(* FileBasedETLEvaluator._evaluate_cross_file_consistency.                 *)

\* The base names of the files: the stem without its last "_" word, for the
\* stems of two words or more.
BaseNames(ws) ==
    {SubSeq(p.parts, 1, Len(p.parts) - 1) : p \in {f \in Present(ws) : Len(f.parts) >= 2}}

\* NamingCheck with a deduction of 2.0 for inconsistent names.
NamingCheckDeductsTwo(ws, score, issues) ==
    IF Cardinality(BaseNames(ws)) > 2
    THEN [score |-> Max(0, score - 2000),
          issues |-> issues \cup {"Inconsistent file naming patterns"}]
    ELSE [score |-> Max(0, score), issues |-> issues]

\* The result once the try block has run to its end with score so far.
NamingCheck(ws, score, issues) ==
    IF Cardinality(BaseNames(ws)) > 2
    THEN [score |-> Max(0, score - 1000),
          issues |-> issues \cup {"Inconsistent file naming patterns"}]
    ELSE [score |-> Max(0, score), issues |-> issues]

\* The result when the try block raised with score so far.
ConsistencyFailed(score, issues) ==
    [score |-> Max(0, score - 1000), issues |-> issues \cup {"Consistency check failed"}]

\* consistency_ratio < 0.5 for a document with both "entities" and "tables".
Misaligned(doc) ==
    IF doc.n_entities = 0 THEN TRUE ELSE 2 * doc.n_shared < doc.n_entities

\* field_coverage < 0.7: the schema's field names the script quotes.
LowFieldCoverage(doc, etl) ==
    LET n == IF doc.has_tables THEN doc.n_tables * doc.n_fields ELSE 0
    IN  IF n = 0 THEN FALSE ELSE 10 * Min(etl.referenced, n) < 7 * n

\* Incremental mode never assigns etl_files, so "schema_files and etl_files"
\* raises UnboundLocalError whenever schema_files is not empty; the raise is
\* caught by the handler of the try block.
EvaluateCrossFileConsistency(ws, mode) ==
    IF mode = "incremental"
    THEN LET schema_files == GlobSchemaPrefix(ws)
         IN  IF schema_files = {}
             THEN NamingCheck(ws, 2000, {"No schema files to check consistency"})
             ELSE LET doc == ws[First(schema_files)]
                  IN  IF doc.kind # "schema" THEN ConsistencyFailed(5000, {})
                      ELSE IF doc.has_entities /\ doc.has_tables /\ Misaligned(doc)
                           THEN ConsistencyFailed(4000,
                                    {"Entity-table name alignment could be improved"})
                           ELSE ConsistencyFailed(5000, {})
    ELSE LET schema_files == GlobAnySchema(ws)
             etl_files == GlobExt(ws, "py")
         IN  IF schema_files = {} \/ etl_files = {}
             THEN NamingCheck(ws, 5000, {})
             ELSE LET doc == ws[First(schema_files)]
                      etl == ws[First(etl_files)]
                  IN  IF doc.kind # "schema" \/ etl.kind # "etl"
                      THEN ConsistencyFailed(5000, {})
                      ELSE IF LowFieldCoverage(doc, etl)
                           THEN NamingCheck(ws, 3000, {"Low schema-ETL field consistency"})
                           ELSE NamingCheck(ws, 5000, {})

----------------------------------------------------------------------------
(* FileBasedETLEvaluator._evaluate_production_readiness.  Nothing in it    *)
(* catches an exception: a file it cannot parse or read makes it raise.    *)

ReadinessRaised == [raised |-> TRUE, score |-> 0, issues |-> {}]
ReadinessResult(score, issues) ==
    [raised |-> FALSE, score |-> Min(5000, Max(0, score)), issues |-> issues]

EvaluateProductionReadiness(ws, mode) ==
    IF mode = "incremental"
    THEN LET schema_files == GlobSchemaPrefix(ws)
         IN  IF schema_files = {}
             THEN ReadinessResult(0,
                      {"No schema files found for production readiness assessment"})
             ELSE LET doc == ws[First(schema_files)]
                  IN  IF doc.kind # "schema" THEN ReadinessRaised
                      ELSE LET has_bq_types ==
                                   doc.has_tables /\ doc.n_tables > 0 /\ doc.n_well > 0
                               conf == IF doc.confidence = -1 THEN 0
                                       ELSE IF doc.confidence >= 90 THEN 2000
                                       ELSE IF doc.confidence >= 70 THEN 1000 ELSE 0
                           IN  ReadinessResult(
                                   (IF has_bq_types THEN 3000 ELSE 1000) + conf,
                                   (IF has_bq_types THEN {}
                                    ELSE {"Schema lacks BigQuery-specific type information"})
                                   \cup (IF doc.confidence # -1 /\ doc.confidence < 70
                                         THEN {"Low schema confidence"} ELSE {}))
    ELSE LET ddl_files == GlobExt(ws, "sql")
             etl_files == GlobExt(ws, "py")
             ddl == IF ddl_files # {} THEN ws[First(ddl_files)] ELSE Absent
             etl == IF etl_files # {} THEN ws[First(etl_files)] ELSE Absent
         IN  IF ddl.kind = "unreadable" \/ etl.kind = "unreadable" THEN ReadinessRaised
             ELSE LET ddl_score ==
                          IF ddl.kind # "ddl" THEN 0
                          ELSE 2000 + (IF ddl.create_table THEN 1000 ELSE 0)
                               + (IF ddl.bigquery THEN 1000 ELSE 0)
                      ddl_issues ==
                          IF ddl.kind # "ddl" THEN {"No BigQuery DDL files found"}
                          ELSE (IF ddl.create_table THEN {}
                                ELSE {"DDL doesn't contain CREATE TABLE statement"})
                               \cup (IF ddl.bigquery THEN {}
                                     ELSE {"DDL doesn't seem BigQuery-specific"})
                      etl_score == IF etl.kind # "etl" THEN 0
                                   ELSE IF etl.try_except THEN 1000 ELSE -500
                      etl_issues == IF etl.kind = "etl" /\ ~etl.try_except
                                    THEN {"ETL script lacks error handling"} ELSE {}
                  IN  ReadinessResult(ddl_score + etl_score, ddl_issues \cup etl_issues)

----------------------------------------------------------------------------
(* FileBasedETLEvaluator._detect_permission_seeking.  A response text is   *)
(* the indicator phrase it contains (0: none) and the letter case it is    *)
(* written in: as the list spells it, all lower case, or all upper case.   *)

NumIndicators == 10
Casings == {"listed", "lower", "upper"}
Texts == [phrase : 0..NumIndicators, casing : Casings]

\* The entries of permission_indicators that hold a capital letter:
\* "shall I proceed", "should I continue", "next, I can", "should I generate".
CapitalisedIndicators == {2, 3, 5, 9}

\* How phrase k reads in a casing: a phrase with no capital letter reads the
\* same as listed and in lower case.
Spelling(k, casing) ==
    IF casing = "listed" /\ k \notin CapitalisedIndicators
    THEN [phrase |-> k, casing |-> "lower"]
    ELSE [phrase |-> k, casing |-> casing]

\* response_text.lower()
Lower(text) == [phrase |-> text.phrase, casing |-> "lower"]

\* indicator in text, for a text already lower-cased or not
ContainsIndicator(text, k) ==
    text.phrase = k /\ Spelling(text.phrase, text.casing) = Spelling(k, "listed")

DetectPermissionSeeking(response_text) ==
    LET response_lower == Lower(response_text)
    IN  \E k \in 1..NumIndicators : ContainsIndicator(response_lower, k)

----------------------------------------------------------------------------
(* FileBasedETLEvaluator._evaluate_complete_pipeline.                      *)

NoReport == [status |-> "none"]
\* The call did not return: an exception left it.
Raised == [status |-> "raised"]

\* PassThreshold with the two thresholds exchanged.
PassThresholdSwapped(mode) == IF mode = "incremental" THEN 350000 ELSE 250000

\* The pass threshold of a mode, in units of 10^-5 point.
PassThreshold(mode) == IF mode = "incremental" THEN 250000 ELSE 350000

\* overall_pass of a score num / den, both in units of 10^-5 point.
OverallPass(mode, num, den) == num >= PassThreshold(mode) * den

\* The entries of the score list, in units of 10^-5 point.
ScoreList(mode, permission_seeking, process, files, functionality, consistency, readiness) ==
    IF mode = "incremental"
    THEN <<process * 15, files * 40, functionality * 20, consistency * 15, readiness * 10>>
         \o (IF permission_seeking THEN <<100000>> ELSE <<>>)
    ELSE <<process * 100, files * 100, functionality * 100, consistency * 100,
           readiness * 100>>

\* overall_score = sum(scores) / len([s for s in scores if s > 0])
OverallNum(scores) == SumSeq(scores)
OverallDen(scores) == CountPositive(scores)

EvaluateCompletePipeline(ws, actions, full_response, mode, run) ==
    LET permission_seeking == DetectPermissionSeeking(full_response)
        process == EvaluateProcessQuality(actions, mode)
        files == EvaluateFileOutputs(ws, mode)
        functionality == EvaluatePipelineFunctionality(ws, mode, run)
        consistency == EvaluateCrossFileConsistency(ws, mode)
        readiness == EvaluateProductionReadiness(ws, mode)
        scores == ScoreList(mode, permission_seeking, process.score, files.score,
                            functionality.score, consistency.score, readiness.score)
    IN  IF readiness.raised \/ OverallDen(scores) = 0 THEN Raised
        ELSE [status |-> "returned",
              evaluation_mode |-> mode,
              permission_seeking_detected |-> permission_seeking,
              process_evaluation |-> process,
              file_outputs |-> files,
              pipeline_functionality |-> functionality,
              cross_file_consistency |-> consistency,
              production_readiness |-> [score |-> readiness.score,
                                        issues |-> readiness.issues],
              overall_num |-> OverallNum(scores),
              overall_den |-> OverallDen(scores),
              overall_pass |-> OverallPass(mode, OverallNum(scores), OverallDen(scores))]

----------------------------------------------------------------------------
(* Specification Spec: an agent writes artifacts into a workspace that     *)
(* holds the input file, then _evaluate_complete_pipeline is called on it. *)

NoCall == [made |-> FALSE]

\* The texts the calls pass as full_response: one without any indicator, one
\* with "would you like me to", one with "shall I proceed".
ResponsesTried == {t \in Texts : t.phrase \in 0..2 /\ t.casing = "listed"}

\* The action lists the calls pass: none, or one action per artifact of the
\* workspace, in any order.
ActionListsTried(ws) ==
    {<<>>} \cup {ActionsCreating(q) : q \in Orderings(Present(ws) \cap ArtifactPaths)}

\* Outside full_pipeline mode, and without a script in etl/, nothing is run.
RunOutcomesTried(ws, mode) ==
    IF mode = "full_pipeline" /\ GlobIn(ws, "etl", "py") # {} THEN RunOutcomes ELSE {"ok"}

EpisodeIdle == /\ clock = 0 /\ dirs = <<>> /\ episodes = <<>>

\* No validator called.
NoValidation == [made |-> FALSE]
\* No monitor constructed.
NoMonitor == [constructed |-> FALSE]
\* No scan started.
NoScan == [pc |-> "none"]

HarnessIdle == /\ validation = NoValidation /\ monitor = NoMonitor /\ scan = NoScan

InitPipeline ==
    /\ evaluation_mode \in Modes
    /\ workspace = [p \in Paths |-> IF p = InputJson THEN InputData ELSE Absent]
    /\ call = NoCall
    /\ report = NoReport
    /\ EpisodeIdle
    /\ HarnessIdle

Write(p, content) ==
    /\ report = NoReport
    /\ workspace' = [workspace EXCEPT ![p] = content]
    /\ UNCHANGED <<evaluation_mode, call, report, episodeVars, harnessVars>>

WriteSchema ==
    /\ \A p \in SchemaPaths : workspace[p] = Absent
    /\ \E p \in SchemaPaths :
        \E d \in {CorruptJson} \cup (IF evaluation_mode = "incremental"
                                     THEN IncrementalDocs ELSE FullPipelineDocs) :
            Write(p, d)

\* The script an incremental episode's agent writes: no evaluator of that
\* mode reads a script, a CSV or a DDL file.
PlainScript == [kind |-> "etl", try_except |-> FALSE, referenced |-> 0]
PlainCsv == [kind |-> "csv", present |-> 0]
PlainDdl == [kind |-> "ddl", create_table |-> TRUE, bigquery |-> FALSE]

WriteEtl ==
    /\ workspace[EtlScriptPy] = Absent
    /\ \E c \in (IF evaluation_mode = "incremental" THEN {PlainScript}
                 ELSE EtlScripts \cup {Unreadable}) :
        Write(EtlScriptPy, c)

WriteCsv ==
    /\ workspace[OutputCsv] = Absent
    /\ \E c \in (IF evaluation_mode = "incremental" THEN {PlainCsv} ELSE CsvContents) :
        Write(OutputCsv, c)

WriteDdl ==
    /\ workspace[DdlSql] = Absent
    /\ \E c \in (IF evaluation_mode = "incremental" THEN {PlainDdl}
                 ELSE DdlFiles \cup {Unreadable}) :
        Write(DdlSql, c)

Evaluate ==
    /\ report = NoReport
    /\ \E actions \in ActionListsTried(workspace), full_response \in ResponsesTried,
          run \in RunOutcomesTried(workspace, evaluation_mode) :
        /\ call' = [made |-> TRUE, actions |-> actions,
                    full_response |-> full_response, run |-> run]
        /\ report' = EvaluateCompletePipeline(workspace, actions, full_response,
                                              evaluation_mode, run)
    /\ UNCHANGED <<evaluation_mode, workspace, episodeVars, harnessVars>>

Next == WriteSchema \/ WriteEtl \/ WriteCsv \/ WriteDdl \/ Evaluate

Spec == InitPipeline /\ [][Next]_vars

----------------------------------------------------------------------------
(* Specification SpecThreshold: the last two statements of                 *)
(* _evaluate_complete_pipeline applied to any score list total.            *)

\* The longest score list: five components and the bonus.
NumScoreEntries == 6

\* The overall scores tried: every half point up to MaxOverall, as the sum
\* of a score list with den positive entries.
ScoresTried ==
    {[num |-> k * 50000 * d, den |-> d] : k \in 0..(2 * MaxOverall), d \in 1..NumScoreEntries}

InitThreshold == InitPipeline

ApplyThreshold ==
    \E mode \in Modes, s \in ScoresTried :
        /\ evaluation_mode' = mode
        /\ report' = [status |-> "returned", evaluation_mode |-> mode,
                      overall_num |-> s.num, overall_den |-> s.den,
                      overall_pass |-> OverallPass(mode, s.num, s.den)]
        /\ UNCHANGED <<workspace, call, episodeVars, harnessVars>>

NextThreshold == ApplyThreshold

SpecThreshold == InitThreshold /\ [][NextThreshold]_vars

----------------------------------------------------------------------------
(* Properties of _evaluate_complete_pipeline, checked under Spec and       *)
(* SpecThreshold.                                                          *)

Returned == report.status = "returned"

\* The five component scores of the report, in thousandths.
ComponentScores ==
    <<report.process_evaluation.score, report.file_outputs.score,
      report.pipeline_functionality.score, report.cross_file_consistency.score,
      report.production_readiness.score>>

\* The report of the same call with a response that seeks no permission.
ReportWithoutPermission ==
    EvaluateCompletePipeline(workspace, call.actions, [phrase |-> 0, casing |-> "listed"],
                             evaluation_mode, call.run)

\* C1: in incremental mode, the overall score of a report whose response
\* seeks permission is at least the overall score of the same workspace and
\* actions (hence the same five component scores) with a response that does
\* not.
C1_BonusNeverLowersScore ==
    (Returned /\ evaluation_mode = "incremental" /\ report.permission_seeking_detected)
    => /\ ReportWithoutPermission.status = "returned"
       /\ report.overall_num * ReportWithoutPermission.overall_den
          >= ReportWithoutPermission.overall_num * report.overall_den

\* C2: in incremental mode, overall_score is the weighted sum
\* 0.15 process + 0.40 file_outputs + 0.20 functionality + 0.15 consistency
\* + 0.10 readiness, plus 1.0 when permission seeking was detected.
C2_IncrementalWeightedSum ==
    (Returned /\ evaluation_mode = "incremental")
    => report.overall_num
       = report.overall_den
         * (15 * ComponentScores[1] + 40 * ComponentScores[2] + 20 * ComponentScores[3]
            + 15 * ComponentScores[4] + 10 * ComponentScores[5]
            + (IF report.permission_seeking_detected THEN 100000 ELSE 0))

\* C3: in full_pipeline mode, overall_score is the plain mean of the five
\* component scores, also when some of them are 0, with no bonus.
C3_FullPipelinePlainMean ==
    (Returned /\ evaluation_mode = "full_pipeline")
    => 5 * report.overall_num
       = report.overall_den * 100 * SumSeq(ComponentScores)

\* The schema files of the workspace that have full structural quality,
\* BigQuery types and a declared confidence of 0.9 or more.
FullQualitySchemaFiles ==
    {p \in SchemaFilesByName(Present(workspace)) :
        /\ SchemaFileQuality(workspace[p]) = 5000
        /\ workspace[p].n_well > 0
        /\ workspace[p].confidence >= 90}

\* C4: in incremental mode, a workspace with a schema file of full quality
\* and a response that seeks permission gets overall_score >= 3.0 and
\* overall_pass = true, even with an empty action list.
C4_GoodSchemaWithPermissionPasses ==
    (/\ report.status # "none" /\ evaluation_mode = "incremental"
     /\ call.actions = <<>> /\ DetectPermissionSeeking(call.full_response)
     /\ FullQualitySchemaFiles # {})
    => /\ Returned
       /\ report.overall_num >= 300000 * report.overall_den
       /\ report.overall_pass

\* C5: whatever the workspace holds, a corrupt or unreadable artifact
\* included, _evaluate_complete_pipeline returns a report and does not raise.
C5_EvaluationNeverRaises == report.status # "raised"

\* C9: each of the five component scores of a report lies in [0, 5].
C9_ComponentScoresInRange ==
    Returned => \A i \in 1..5 : ComponentScores[i] >= 0 /\ ComponentScores[i] <= 5000

\* C10: overall_pass is true exactly when overall_score >= 2.5 in incremental
\* mode and exactly when overall_score >= 3.5 in full_pipeline mode.
C10_PassIffThreshold ==
    Returned
    => (report.overall_pass
        <=> IF evaluation_mode = "incremental"
            THEN 2 * report.overall_num >= 5 * 100000 * report.overall_den
            ELSE 2 * report.overall_num >= 7 * 100000 * report.overall_den)

\* C10, witness: an incremental report whose overall_score is exactly 3.0,
\* which passes; the same score fails the full_pipeline threshold.
C10_Witness ==
    /\ Returned /\ evaluation_mode = "incremental"
    /\ report.overall_num = 3 * 100000 * report.overall_den
    /\ report.overall_pass
    /\ ~OverallPass("full_pipeline", report.overall_num, report.overall_den)

----------------------------------------------------------------------------
(* The message stream of ClaudeETLAgent.chat_stream.                       *)

ToolNames == {"Write", "Bash"}

\* The content blocks of the SDK's messages, by class name.
Blocks ==
    {[class |-> "TextBlock", name |-> ""], [class |-> "ThinkingBlock", name |-> ""]}
    \cup {[class |-> "ToolUseBlock", name |-> n] : n \in ToolNames}

BlockLists == UNION {[1..n -> Blocks] : n \in 0..MaxBlocks}

\* The messages client.receive_response() yields, by class name.
Messages ==
    {[class |-> "AssistantMessage", content |-> c] : c \in BlockLists}
    \cup {[class |-> c, content |-> <<>>] :
            c \in {"SystemMessage", "UserMessage", "ResultMessage"}}

\* ClaudeETLAgent._serialize_content_block
SerializeContentBlock(block) ==
    CASE block.class = "TextBlock" -> [type |-> "text", name |-> ""]
      [] block.class = "ToolUseBlock" -> [type |-> "tool_use", name |-> block.name]
      [] block.class = "ToolResultBlock" -> [type |-> "tool_result", name |-> ""]
      [] block.class = "ThinkingBlock" -> [type |-> "thinking", name |-> ""]
      [] OTHER -> [type |-> "unknown", name |-> ""]

\* ClaudeETLAgent._serialize_message: the dict chat_stream yields.
SerializeMessage(message) ==
    CASE message.class = "SystemMessage" -> [type |-> "system", name |-> "", content |-> <<>>]
      [] message.class = "AssistantMessage" ->
            [type |-> "assistant", name |-> "",
             content |-> [i \in DOMAIN message.content |->
                              SerializeContentBlock(message.content[i])]]
      [] message.class = "UserMessage" ->
            [type |-> "user", name |-> "",
             content |-> [i \in DOMAIN message.content |->
                              SerializeContentBlock(message.content[i])]]
      [] message.class = "ResultMessage" -> [type |-> "result", name |-> "", content |-> <<>>]
      [] OTHER -> [type |-> "unknown", name |-> "", content |-> <<>>]

\* The dict chat_stream yields when the collaborator raises; the stream ends.
ErrorChunk == [type |-> "error", name |-> "", content |-> <<>>]

\* The names of the tools a chunk of the stream invokes, in order.
RECURSIVE ToolUsesOf(_)
ToolUsesOf(content) ==
    IF content = <<>> THEN <<>>
    ELSE (IF Head(content).type = "tool_use" THEN <<Head(content).name>> ELSE <<>>)
         \o ToolUsesOf(Tail(content))

ToolUsesIn(chunk) ==
    IF chunk.type = "tool_use" THEN <<chunk.name>> ELSE ToolUsesOf(chunk.content)

\* The loop body of evaluate_multi_step_etl_process: what a chunk appends to
\* the actions list (the tools_used of each AgentAction appended).
ActionsRecordedFor(chunk) ==
    IF chunk.type = "assistant" THEN <<>>
    ELSE IF chunk.type = "tool_use" THEN <<chunk.name>>
    ELSE <<>>

\* The loop body: how many texts a chunk appends to response_parts.
TextsRecordedFor(chunk) ==
    IF chunk.type = "assistant"
    THEN Cardinality({i \in DOMAIN chunk.content : chunk.content[i].type = "text"})
    ELSE 0

----------------------------------------------------------------------------
(* Workspaces (src/app/utils/workspace.py).  The base directory maps an    *)
(* instance id to a directory; a directory holds the files of the episodes *)
(* that wrote into it.                                                     *)

Episodes == 1..NumEpisodes
InstanceIds == 0..MaxClock

NoDirectory == [exists |-> FALSE, files |-> {}]

\* datetime.now().strftime("%Y%m%d_%H%M%S_%f")[:-3]: the id is the millisecond.
InstanceIdAt(now) == now

\* create_workspace_instance: an existing directory of that id is removed
\* with all it holds, then the directory is created empty.
CreateWorkspaceInstance(base, now) ==
    [base EXCEPT ![InstanceIdAt(now)] = [exists |-> TRUE, files |-> {}]]

\* setup_workspace
SetupWorkspace(base, now) == CreateWorkspaceInstance(base, now)

\* cleanup_workspace
CleanupWorkspace(base, id) == [base EXCEPT ![id] = NoDirectory]

----------------------------------------------------------------------------
(* evaluate_multi_step_etl_process, one call per episode.                  *)

\* The keys of the dict _evaluate_complete_pipeline returns; the bonus key is
\* set when permission seeking was detected in incremental mode.
EvaluationKeys(bonus) ==
    {"scenario", "evaluation_mode", "permission_seeking_detected", "process_evaluation",
     "file_outputs", "pipeline_functionality", "cross_file_consistency",
     "production_readiness", "overall_score", "overall_pass"}
    \cup (IF bonus THEN {"permission_seeking_bonus"} ELSE {})

\* stream_failed: the collaborator raised while the stream was read;
\* evaluation: the keys of the dict the call returned.
IdleEpisode ==
    [pc |-> "idle", instance_id |-> -1, received |-> 0, tool_uses |-> <<>>,
     actions |-> <<>>, response_parts |-> 0, stream_failed |-> FALSE,
     evaluation |-> {}]

Exited(e) == episodes[e].pc \in {"returned", "raised"}

\* setup_workspace, the copy of the input file, the agent, the initial
\* snapshot.  The copy raises when the scenario's file is missing: the call
\* ends before its try block.
Start(e) ==
    /\ episodes[e].pc = "idle"
    /\ \E copied \in BOOLEAN :
        LET id == InstanceIdAt(clock)
            created == SetupWorkspace(dirs, clock)
        IN  /\ dirs' = IF copied
                       THEN [created EXCEPT ![id].files = {e}]
                       ELSE created
            /\ episodes' = [episodes EXCEPT ![e].instance_id = id,
                               ![e].pc = IF copied THEN "streaming" ELSE "raised"]
    /\ UNCHANGED <<clock, pipelineVars, harnessVars>>

\* One iteration of "async for response_chunk in agent.chat_stream(message)".
Receive(e) ==
    /\ episodes[e].pc = "streaming"
    /\ episodes[e].received < MaxMessages
    /\ \E message \in Messages :
        LET chunk == SerializeMessage(message)
        IN  episodes' = [episodes EXCEPT
                ![e].received = @ + 1,
                ![e].tool_uses = @ \o ToolUsesIn(chunk),
                ![e].actions = @ \o ActionsRecordedFor(chunk),
                ![e].response_parts = @ + TextsRecordedFor(chunk)]
    /\ UNCHANGED <<clock, dirs, pipelineVars, harnessVars>>

\* The collaborator raises: chat_stream yields its error dict and ends, and
\* the loop ignores the dict.
StreamError(e) ==
    /\ episodes[e].pc = "streaming"
    /\ episodes' = [episodes EXCEPT
            ![e].pc = "drained",
            ![e].stream_failed = TRUE,
            ![e].actions = @ \o ActionsRecordedFor(ErrorChunk),
            ![e].response_parts = @ + TextsRecordedFor(ErrorChunk)]
    /\ UNCHANGED <<clock, dirs, pipelineVars, harnessVars>>

\* The stream ends.
StreamEnd(e) ==
    /\ episodes[e].pc = "streaming"
    /\ episodes' = [episodes EXCEPT ![e].pc = "drained"]
    /\ UNCHANGED <<clock, dirs, pipelineVars, harnessVars>>

\* The final snapshot, _evaluate_complete_pipeline (which returns or raises)
\* and the finally clause, which closes the agent's client and nothing else.
Finish(e) ==
    /\ episodes[e].pc = "drained"
    /\ \E evaluated \in BOOLEAN, bonus \in BOOLEAN :
        episodes' = [episodes EXCEPT
            ![e].pc = IF evaluated THEN "returned" ELSE "raised",
            ![e].evaluation = IF evaluated THEN EvaluationKeys(bonus) ELSE {}]
    /\ UNCHANGED <<clock, dirs, pipelineVars, harnessVars>>

Tick ==
    /\ clock < MaxClock
    /\ clock' = clock + 1
    /\ UNCHANGED <<dirs, episodes, pipelineVars, harnessVars>>

InitEpisode ==
    /\ clock = 0
    /\ dirs = [id \in InstanceIds |-> NoDirectory]
    /\ episodes = [e \in Episodes |-> IdleEpisode]
    /\ evaluation_mode = "incremental"
    /\ workspace = [p \in Paths |-> Absent]
    /\ call = NoCall
    /\ report = NoReport
    /\ HarnessIdle

NextEpisode ==
    \/ Tick
    \/ \E e \in Episodes : Start(e)
    \/ \E e \in Episodes : Receive(e)
    \/ \E e \in Episodes : StreamError(e)
    \/ \E e \in Episodes : StreamEnd(e)
    \/ \E e \in Episodes : Finish(e)

SpecEpisode == InitEpisode /\ [][NextEpisode]_vars

----------------------------------------------------------------------------
(* Properties of evaluate_multi_step_etl_process, checked under            *)
(* SpecEpisode.                                                            *)

\* C6: an episode that has exited, by return or by exception, has removed
\* the workspace directory it created.
C6_WorkspaceRemovedOnExit ==
    \A e \in Episodes : Exited(e) => ~dirs[episodes[e].instance_id].exists

\* C7: any two calls of setup_workspace return distinct directories, and the
\* directory of a running episode still holds that episode's files.
C7_WorkspacesIsolated ==
    /\ \A e1, e2 \in Episodes :
        (e1 # e2 /\ episodes[e1].pc # "idle" /\ episodes[e2].pc # "idle")
        => episodes[e1].instance_id # episodes[e2].instance_id
    /\ \A e \in Episodes :
        episodes[e].pc \in {"streaming", "drained"}
        => e \in dirs[episodes[e].instance_id].files

\* C8: when the stream has ended, the evaluator has recorded one action per
\* tool use of the stream, in stream order.
C8_OneActionPerToolUse ==
    \A e \in Episodes :
        episodes[e].pc \in {"drained", "returned"}
        => episodes[e].actions = episodes[e].tool_uses

----------------------------------------------------------------------------
(* The file validators of RealTimeETLMonitor (src/tests/etl_monitoring.py). *)

\* The exception classes the validators meet, each with its base class.
BaseOf(exc) ==
    CASE exc \in {"FileNotFoundError", "PermissionError"} -> "OSError"
      [] exc \in {"JSONDecodeError", "UnicodeDecodeError", "EmptyDataError", "ParserError"}
            -> "ValueError"
      [] exc \in {"OSError", "ValueError", "TypeError", "AttributeError", "SyntaxError"}
            -> "Exception"
      [] OTHER -> "BaseException"

\* A handler that catches only the class named, not its subclasses.
IsExactly(exc, class) == exc = class

\* "except class": isinstance(exc, class)
RECURSIVE IsInstance(_, _)
IsInstance(exc, class) ==
    IF exc = class THEN TRUE
    ELSE IF exc = "BaseException" THEN FALSE
    ELSE IsInstance(BaseOf(exc), class)

\* Files no validator can read.
MissingFile == [kind |-> "missing"]
UnreadableFile == [kind |-> "unreadable"]
UndecodableFile == [kind |-> "undecodable"]
FailingFiles == {MissingFile, UnreadableFile, UndecodableFile}

\* "with open(file_path) as f: f.read()": the exception raised, if any.
OpenRead(file) ==
    CASE file.kind = "missing" -> "FileNotFoundError"
      [] file.kind = "unreadable" -> "PermissionError"
      [] file.kind = "undecodable" -> "UnicodeDecodeError"
      [] OTHER -> "none"

\* The outcome of a validator's try block: the exception that left it
\* ("none": it completed), the score and the issues when it ended, and
\* whether 0.2 was deducted (0.2 is no binary fraction: the double left by
\* repeated deduction differs from the decimal value in its last bits, and
\* where the decimal value is 3.0, from 5.0 or 4.0, it lies under 3.0).
Outcome(exc, score, inexact, issues) ==
    [exc |-> exc, score |-> score, inexact |-> inexact, issues |-> issues]

\* The ValidationResult a validator returns: passed is decided on the score
\* before the floor at 0.0; score_inexact tells that the stored double is
\* not the decimal value of score but the double next to it.
\* (First: the same result with the score stored as it is, not floored.)
StoredUnfloored(name, o) ==
    [raised |-> FALSE, validator_name |-> name,
     passed |-> o.score > 3000 \/ (o.score = 3000 /\ ~o.inexact),
     score |-> o.score, score_inexact |-> o.inexact /\ o.score > 0,
     issues |-> o.issues]

ValidationResult(name, o) ==
    [raised |-> FALSE, validator_name |-> name,
     passed |-> o.score > 3000 \/ (o.score = 3000 /\ ~o.inexact),
     score |-> Max(0, o.score), score_inexact |-> o.inexact /\ o.score > 0,
     issues |-> o.issues]

\* An exception no handler of the validator caught.
Propagated(name, exc) == [raised |-> TRUE, validator_name |-> name, exception |-> exc]

\* IF cond THEN <<issue>> ELSE <<>>
IssueIf(cond, issue) == IF cond THEN <<issue>> ELSE <<>>
Penalty(cond, points) == IF cond THEN points ELSE 0

\* n times the same issue.
RECURSIVE Repeat(_, _)
Repeat(issue, n) == IF n = 0 THEN <<>> ELSE <<issue>> \o Repeat(issue, n - 1)

\* A file json.load cannot parse.
MalformedJson == [kind |-> "malformed"]

\* A parsed JSON document: its top-level value ("object", "array" or
\* "number"); for an object, whether it has "entities" and whether that
\* value has a length; its "tables" value ("absent", "object" or "array");
\* whether it has "transformations"; and, over the "fields" maps of its
\* tables, the number of field definitions that are objects with a "type"
\* key, objects without one, numbers, and strings that contain the text
\* "type" (a string without it is deducted like an object without the key).
JsonDoc(top, he, es, tb, ht, nt, nu, ns, nx) ==
    [kind |-> "json", top |-> top, has_entities |-> he, entities_sized |-> es,
     tables |-> tb, has_transformations |-> ht,
     n_typed |-> nt, n_untyped |-> nu, n_scalar |-> ns, n_text |-> nx]

JsonObjects ==
    {JsonDoc("object", he, es, tb, ht, nt, nu, ns, nx) :
        he \in BOOLEAN, es \in BOOLEAN, tb \in {"absent", "object", "array"},
        ht \in BOOLEAN, nt \in 0..1, nu \in 0..MaxUntyped, ns \in 0..1, nx \in 0..1}

JsonDocs ==
    {d \in JsonObjects :
        /\ (~d.has_entities => d.entities_sized)
        /\ (d.tables # "object"
            => d.n_typed = 0 /\ d.n_untyped = 0 /\ d.n_scalar = 0 /\ d.n_text = 0)}
    \cup {JsonDoc(top, FALSE, TRUE, "absent", FALSE, 0, 0, 0, 0) : top \in {"array", "number"}}

SchemaFilesTried == FailingFiles \cup {MalformedJson} \cup JsonDocs

\* json.load(f): the exception raised, if any.
JsonLoad(file) == IF file.kind = "malformed" THEN "JSONDecodeError" ELSE OpenRead(file)

\* The issues of the three section checks.
SectionIssues(doc) ==
    IssueIf(~doc.has_entities, "Missing 'entities' section")
    \o IssueIf(doc.tables = "absent", "Missing 'tables' section")
    \o IssueIf(~doc.has_transformations, "Missing 'transformations' section")

\* The score after the three section checks.
SectionScore(doc) ==
    5000 - Penalty(~doc.has_entities, 2000) - Penalty(doc.tables = "absent", 2000)
         - Penalty(~doc.has_transformations, 1000)

\* A deduction of 0.1 per field.
MissingTypeHalved(n) == 100 * n
\* The deduction for n fields without a "type" key.
MissingTypePenalty(n) == 200 * n

\* The try block of _validate_schema_file.
SchemaTry(file) ==
    IF JsonLoad(file) # "none" THEN Outcome(JsonLoad(file), 5000, FALSE, <<>>)
    ELSE IF file.top = "number"
    THEN \* "entities" not in 5
         Outcome("TypeError", 5000, FALSE, <<>>)
    ELSE IF file.top = "array"
    THEN \* no section is an element of the list; schema.get fails
         Outcome("AttributeError", 0, FALSE,
                 <<"Missing 'entities' section", "Missing 'tables' section",
                   "Missing 'transformations' section">>)
    ELSE LET score == SectionScore(file) - MissingTypePenalty(file.n_untyped)
             issues == SectionIssues(file) \o Repeat("Field missing type", file.n_untyped)
             inexact == file.n_untyped > 0
         IN  IF file.tables = "array"
             THEN \* schema["tables"].items()
                  Outcome("AttributeError", SectionScore(file), FALSE, SectionIssues(file))
             ELSE IF file.n_scalar > 0
             THEN \* "type" not in 5
                  Outcome("TypeError", score, inexact, issues)
             ELSE IF ~file.entities_sized
             THEN \* len(schema.get("entities", []))
                  Outcome("TypeError", score, inexact, issues)
             ELSE Outcome("none", score, inexact, issues)

\* RealTimeETLMonitor._validate_schema_file
ValidateSchemaFile(file) ==
    LET o == SchemaTry(file)
    IN  IF o.exc = "none" THEN ValidationResult("schema_validator", o)
        ELSE IF IsInstance(o.exc, "JSONDecodeError")
        THEN ValidationResult("schema_validator",
                 Outcome("none", 0, FALSE, o.issues \o <<"Invalid JSON format">>))
        ELSE IF IsInstance(o.exc, "Exception")
        THEN ValidationResult("schema_validator",
                 Outcome("none", 0, FALSE, o.issues \o <<"Validation error">>))
        ELSE Propagated("schema_validator", o.exc)

\* An ETL script, by the substrings _validate_etl_script looks for and by
\* what compile() does with it: "ok", "syntax_error", or "null_bytes" (a
\* ValueError where compile() rejects a NUL character that way).
Script(im, df, rd, wr, tr, ex, cp) ==
    [kind |-> "script", imports |-> im, defs |-> df, reads |-> rd, writes_csv |-> wr,
     has_try |-> tr, has_except |-> ex, compiles |-> cp]

ScriptsTried ==
    FailingFiles
    \cup {Script(im, df, rd, wr, tr, ex, cp) :
            im \in BOOLEAN, df \in BOOLEAN, rd \in BOOLEAN, wr \in BOOLEAN,
            tr \in BOOLEAN, ex \in BOOLEAN, cp \in {"ok", "syntax_error", "null_bytes"}}

\* compile(code, file_path, 'exec'): the exception raised, if any.
Compile(file) ==
    CASE file.compiles = "syntax_error" -> "SyntaxError"
      [] file.compiles = "null_bytes" -> "ValueError"
      [] OTHER -> "none"

\* An inner try that leaves the score as it is.
SyntaxUnchecked(score, exc) == score
\* The score after the inner try of _validate_etl_script: a SyntaxError is
\* caught there and sets the score to 0.0.
SyntaxChecked(score, exc) == IF IsInstance(exc, "SyntaxError") THEN 0 ELSE score

\* The try block of _validate_etl_script.
EtlTry(file) ==
    IF OpenRead(file) # "none" THEN Outcome(OpenRead(file), 5000, FALSE, <<>>)
    ELSE LET score == 5000 - Penalty(~file.imports, 1000) - Penalty(~file.defs, 1000)
                           - Penalty(~file.reads, 1000) - Penalty(~file.writes_csv, 1000)
                           - Penalty(~file.has_try \/ ~file.has_except, 500)
             issues == IssueIf(~file.imports, "Missing data processing imports")
                       \o IssueIf(~file.defs, "No function definitions found")
                       \o IssueIf(~file.reads, "No file reading operations found")
                       \o IssueIf(~file.writes_csv, "No CSV output generation found")
                       \o IssueIf(~file.has_try \/ ~file.has_except, "Missing error handling")
             exc == Compile(file)
         IN  IF IsInstance(exc, "SyntaxError")
             THEN Outcome("none", SyntaxChecked(score, exc), FALSE,
                          issues \o <<"Syntax error">>)
             ELSE Outcome(exc, score, FALSE, issues)

\* RealTimeETLMonitor._validate_etl_script
ValidateEtlScript(file) ==
    LET o == EtlTry(file)
    IN  IF o.exc = "none" THEN ValidationResult("etl_validator", o)
        ELSE IF IsInstance(o.exc, "Exception")
        THEN ValidationResult("etl_validator",
                 Outcome("none", 0, FALSE, o.issues \o <<"Script validation error">>))
        ELSE Propagated("etl_validator", o.exc)

\* A CSV file pandas parses: its columns, data rows and null cells, and
\* whether a column name has leading or trailing spaces.
CsvTable(nc, nr, nn, sp) ==
    [kind |-> "table", columns |-> nc, rows |-> nr, nulls |-> nn, spaces |-> sp]

\* A file without any line, and a file whose rows pandas cannot tokenize.
EmptyCsvFile == [kind |-> "no_columns"]
RaggedCsvFile == [kind |-> "ragged"]

CsvTables ==
    {t \in {CsvTable(nc, nr, nn, sp) :
                nc \in 1..MaxColumns, nr \in 0..MaxRows,
                nn \in 0..(MaxColumns * MaxRows), sp \in BOOLEAN} :
        t.nulls <= t.columns * t.rows}

CsvFilesTried == FailingFiles \cup {EmptyCsvFile, RaggedCsvFile} \cup CsvTables

\* pd.read_csv(file_path): the exception raised, if any.
ReadCsv(file) ==
    CASE file.kind = "no_columns" -> "EmptyDataError"
      [] file.kind = "ragged" -> "ParserError"
      [] OTHER -> OpenRead(file)

\* A data frame that is never taken for empty.
DataFrameNeverEmpty(df) == FALSE
\* df.empty: no row or no column.
DataFrameEmpty(df) == df.rows = 0 \/ df.columns = 0

\* The try block of _validate_csv_output.
CsvTry(file) ==
    IF ReadCsv(file) # "none" THEN Outcome(ReadCsv(file), 5000, FALSE, <<>>)
    ELSE IF DataFrameEmpty(file) THEN Outcome("none", 0, FALSE, <<"CSV file is empty">>)
    ELSE LET high_nulls == 2 * file.nulls > file.rows * file.columns
         IN  Outcome("none",
                     5000 - Penalty(file.columns < 2, 1000) - Penalty(file.rows < 1, 2000)
                          - Penalty(high_nulls, 1000) - Penalty(file.spaces, 500),
                     FALSE,
                     IssueIf(file.columns < 2, "Too few columns (less than 2)")
                     \o IssueIf(file.rows < 1, "No data rows")
                     \o IssueIf(high_nulls, "High null percentage")
                     \o IssueIf(file.spaces, "Column names have leading/trailing spaces"))

\* RealTimeETLMonitor._validate_csv_output
ValidateCsvOutput(file) ==
    LET o == CsvTry(file)
    IN  IF o.exc = "none" THEN ValidationResult("csv_validator", o)
        ELSE IF IsInstance(o.exc, "Exception")
        THEN ValidationResult("csv_validator",
                 Outcome("none", 0, FALSE, o.issues \o <<"CSV validation error">>))
        ELSE Propagated("csv_validator", o.exc)

\* A DDL file, by what _validate_ddl_file looks for.
Ddl(ct, op, cl, bq, nc) ==
    [kind |-> "sql", create_table |-> ct, open_paren |-> op, close_paren |-> cl,
     bigquery |-> bq, commas |-> nc]

DdlFilesTried ==
    FailingFiles
    \cup {Ddl(ct, op, cl, bq, nc) :
            ct \in BOOLEAN, op \in BOOLEAN, cl \in BOOLEAN, bq \in BOOLEAN,
            nc \in 0..MaxCommas}

\* column_count
ColumnCount(file) == IF file.create_table THEN file.commas + 1 ELSE 0

\* The try block of _validate_ddl_file.
DdlTry(file) ==
    IF OpenRead(file) # "none" THEN Outcome(OpenRead(file), 5000, FALSE, <<>>)
    ELSE Outcome("none",
                 5000 - Penalty(~file.create_table, 2000)
                      - Penalty(~file.open_paren \/ ~file.close_paren, 2000)
                      - Penalty(~file.bigquery, 1000)
                      - Penalty(ColumnCount(file) < 2, 1000),
                 FALSE,
                 IssueIf(~file.create_table, "Missing CREATE TABLE statement")
                 \o IssueIf(~file.open_paren \/ ~file.close_paren, "Missing column definitions")
                 \o IssueIf(~file.bigquery, "Doesn't appear to be BigQuery-specific DDL")
                 \o IssueIf(ColumnCount(file) < 2, "Too few columns defined"))

\* RealTimeETLMonitor._validate_ddl_file
ValidateDdlFile(file) ==
    LET o == DdlTry(file)
    IN  IF o.exc = "none" THEN ValidationResult("ddl_validator", o)
        ELSE IF IsInstance(o.exc, "Exception")
        THEN ValidationResult("ddl_validator",
                 Outcome("none", 0, FALSE, o.issues \o <<"DDL validation error">>))
        ELSE Propagated("ddl_validator", o.exc)

\* self.validators
Validators == {"schema", "etl", "csv", "ddl"}

FilesTried(validator_type) ==
    CASE validator_type = "schema" -> SchemaFilesTried
      [] validator_type = "etl" -> ScriptsTried
      [] validator_type = "csv" -> CsvFilesTried
      [] OTHER -> DdlFilesTried

\* validator_func(file_path)
Validate(validator_type, file) ==
    CASE validator_type = "schema" -> ValidateSchemaFile(file)
      [] validator_type = "etl" -> ValidateEtlScript(file)
      [] validator_type = "csv" -> ValidateCsvOutput(file)
      [] OTHER -> ValidateDdlFile(file)

----------------------------------------------------------------------------
(* Specification SpecValidate: each validator applied to a file of any     *)
(* content.                                                                *)

Validation(validator_type, file) ==
    [made |-> TRUE, validator |-> validator_type, file |-> file,
     result |-> Validate(validator_type, file)]

ValidateSchema ==
    /\ \E file \in FilesTried("schema") : validation' = Validation("schema", file)
    /\ UNCHANGED <<pipelineVars, episodeVars, monitor, scan>>

ValidateEtl ==
    /\ \E file \in FilesTried("etl") : validation' = Validation("etl", file)
    /\ UNCHANGED <<pipelineVars, episodeVars, monitor, scan>>

ValidateCsv ==
    /\ \E file \in FilesTried("csv") : validation' = Validation("csv", file)
    /\ UNCHANGED <<pipelineVars, episodeVars, monitor, scan>>

ValidateDdl ==
    /\ \E file \in FilesTried("ddl") : validation' = Validation("ddl", file)
    /\ UNCHANGED <<pipelineVars, episodeVars, monitor, scan>>

InitValidate == InitEpisode

NextValidate == ValidateSchema \/ ValidateEtl \/ ValidateCsv \/ ValidateDdl

SpecValidate == InitValidate /\ [][NextValidate]_vars

----------------------------------------------------------------------------
(* Properties of the file validators, checked under SpecValidate.          *)

Validated(validator_type) == validation.made /\ validation.validator = validator_type

\* The file cannot be read, cannot be parsed, or does not compile.
ReadParseOrSyntaxFailure ==
    \/ validation.file.kind \in {"missing", "unreadable", "undecodable", "malformed",
                                 "no_columns", "ragged"}
    \/ (validation.file.kind = "script" /\ validation.file.compiles # "ok")

\* C11: no validator raises, whatever the file; on a read, parse or syntax
\* failure the result has score 0.0, passed = false and at least one issue.
C11_ValidatorsNeverRaise ==
    validation.made
    => /\ ~validation.result.raised
       /\ ReadParseOrSyntaxFailure
          => /\ validation.result.score = 0
             /\ ~validation.result.passed
             /\ Len(validation.result.issues) >= 1

\* C11, witness: a script compile() rejects with a ValueError, which only the
\* outer handler catches, validated to score 0.0.
C11_Witness ==
    /\ Validated("etl") /\ validation.file.kind = "script"
    /\ validation.file.compiles = "null_bytes"
    /\ ~validation.result.raised /\ validation.result.score = 0

\* C12: every ValidationResult has 0 <= score <= 5 and passed = (score >= 3.0)
\* for the score it stores.
C12_ScoreInRangeAndPassBar ==
    (validation.made /\ ~validation.result.raised)
    => /\ validation.result.score >= 0 /\ validation.result.score <= 5000
       /\ validation.result.passed
          <=> \/ validation.result.score > 3000
              \/ validation.result.score = 3000 /\ ~validation.result.score_inexact

\* C12, witness: a DDL file whose deductions exceed 5.0, stored as 0.0.
C12_Witness ==
    /\ Validated("ddl") /\ validation.file.kind = "sql"
    /\ DdlTry(validation.file).score < 0
    /\ validation.result.score = 0 /\ ~validation.result.passed

\* The score the section and field deductions give a document with n fields
\* lacking a "type" key.
DeductedScore(doc, n) ==
    Max(0, 5000 - (IF doc.has_entities THEN 0 ELSE 2000)
                - (IF doc.tables = "absent" THEN 2000 ELSE 0)
                - (IF doc.has_transformations THEN 0 ELSE 1000)
                - 200 * n)

ValidatedJsonObject ==
    Validated("schema") /\ validation.file.kind = "json" /\ validation.file.top = "object"

WellShaped(doc) ==
    doc.entities_sized /\ doc.tables # "array" /\ doc.n_scalar = 0 /\ doc.n_text = 0

C14_NoHandlingNoCsvFails ==
    (/\ Validated("etl") /\ validation.file.kind = "script"
     /\ ~validation.file.has_try /\ ~validation.file.has_except
     /\ ~validation.file.writes_csv)
    => /\ ~validation.result.raised
       /\ validation.result.score <= 3000
       /\ ~validation.result.passed

\* C15: a CSV file with a header row and no data row scores at most 3.0 and
\* does not pass, whatever its number of columns.
C15_HeaderOnlyCsvFails ==
    (Validated("csv") /\ validation.file.kind = "table" /\ validation.file.rows = 0)
    => /\ ~validation.result.raised
       /\ validation.result.score <= 3000
       /\ ~validation.result.passed

\* C15, witness: a header of MaxColumns columns without data rows, validated.
C15_Witness ==
    /\ Validated("csv") /\ validation.file.kind = "table"
    /\ validation.file.rows = 0 /\ validation.file.columns = MaxColumns
    /\ ~validation.result.raised /\ ~validation.result.passed

----------------------------------------------------------------------------
(* RealTimeETLMonitor: the watch session.                                  *)

\* RealTimeETLMonitor.__init__.  observer is the state of the Observer
\* thread ("initial", "started", "stopped"), handlers the number of
\* ETLFileWatcher objects scheduled on it.  last_call, active_before and
\* raised record the last call made on the monitor, monitoring_active when
\* it was made, and the exception that left it; arrivals records the events
\* the handlers passed to the monitor, in the order of the calls.
NewMonitor ==
    [constructed |-> TRUE, monitoring_active |-> FALSE, observer |-> "initial",
     handlers |-> 0, file_events |-> <<>>, validation_results |-> <<>>,
     last_call |-> "__init__", active_before |-> FALSE, raised |-> "none",
     arrivals |-> <<>>]

\* What a monitor holds, without the record of the last call.
MonitorState(mon) ==
    [monitoring_active |-> mon.monitoring_active, observer |-> mon.observer,
     handlers |-> mon.handlers, file_events |-> mon.file_events,
     validation_results |-> mon.validation_results]

\* Paths under the watched workspace, by parent directory name and suffix.
WatchedPaths ==
    {[parent |-> "schema", suffix |-> ".json"], [parent |-> "etl", suffix |-> ".py"],
     [parent |-> "output", suffix |-> ".csv"], [parent |-> "ddl", suffix |-> ".sql"],
     [parent |-> "data", suffix |-> ".json"], [parent |-> "schema", suffix |-> ".py"]}

EventTypes == {"created", "modified", "deleted"}

\* A routing by suffix alone.
ValidatorBySuffix(path) ==
    CASE path.suffix = ".json" -> "schema"
      [] path.suffix = ".py" -> "etl"
      [] path.suffix = ".csv" -> "csv"
      [] path.suffix = ".sql" -> "ddl"
      [] OTHER -> "none"

\* _auto_validate_file: the validator of a path, "none" when no branch matches.
ValidatorFor(path) ==
    CASE path.parent = "schema" /\ path.suffix = ".json" -> "schema"
      [] path.parent = "etl" /\ path.suffix = ".py" -> "etl"
      [] path.parent = "output" /\ path.suffix = ".csv" -> "csv"
      [] path.parent = "ddl" /\ path.suffix = ".sql" -> "ddl"
      [] OTHER -> "none"

\* What a validator finds at the path of an event: the file already gone
\* again, or a file of that kind.
ContentsWatched(validator_type) ==
    {MissingFile}
    \cup CASE validator_type = "schema"
                -> {JsonDoc("object", TRUE, TRUE, "object", TRUE, 1, 0, 0, 0)}
           [] validator_type = "etl"
                -> {Script(TRUE, TRUE, TRUE, TRUE, TRUE, TRUE, "ok")}
           [] validator_type = "csv" -> {CsvTable(MaxColumns, MaxRows, 0, FALSE)}
           [] validator_type = "ddl" -> {Ddl(TRUE, TRUE, TRUE, TRUE, MaxCommas)}
           [] OTHER -> {}

\* The FileEvent objects ETLFileWatcher hands to its callback, each with
\* what is at its path when the monitor handles it.
FileEvents ==
    {[event_type |-> t, file_path |-> p, content |-> c] :
        t \in EventTypes, p \in WatchedPaths,
        c \in UNION {ContentsWatched(v) : v \in Validators}}

EventsDelivered ==
    {e \in FileEvents :
        e.content \in ContentsWatched(ValidatorFor(e.file_path)) \cup {MissingFile}}

\* _run_validator: the validation_results after a validator ran; an
\* exception of the validator is logged and nothing is appended.
RunValidator(results, validator_type, content) ==
    LET result == Validate(validator_type, content)
    IN  IF result.raised THEN results ELSE Append(results, result)

\* _auto_validate_file
AutoValidateFile(results, event) ==
    IF ValidatorFor(event.file_path) = "none" THEN results
    ELSE RunValidator(results, ValidatorFor(event.file_path), event.content)

\* start_monitoring: a new handler is scheduled, then the observer thread is
\* started; a thread that was started before raises RuntimeError.
StartMonitoring ==
    /\ monitor.constructed
    /\ monitor.handlers < MaxStarts
    /\ monitor' =
        IF monitor.observer = "initial"
        THEN [monitor EXCEPT !.handlers = @ + 1, !.observer = "started",
                             !.monitoring_active = TRUE,
                             !.last_call = "start_monitoring",
                             !.active_before = monitor.monitoring_active,
                             !.raised = "none"]
        ELSE [monitor EXCEPT !.handlers = @ + 1,
                             !.last_call = "start_monitoring",
                             !.active_before = monitor.monitoring_active,
                             !.raised = "RuntimeError"]
    /\ UNCHANGED <<pipelineVars, episodeVars, validation, scan>>

\* A stop that does not stop and join the observer.
ReleaseNothing(mon) == [mon EXCEPT !.monitoring_active = FALSE]

\* The body of "if self.monitoring_active:" in stop_monitoring:
\* observer.stop(), observer.join(), monitoring_active = False.
ReleaseWatch(mon) == [mon EXCEPT !.observer = "stopped", !.monitoring_active = FALSE]

\* stop_monitoring
StopMonitoring ==
    /\ monitor.constructed
    /\ monitor' =
        [(IF monitor.monitoring_active THEN ReleaseWatch(monitor) ELSE monitor)
            EXCEPT !.last_call = "stop_monitoring",
                   !.active_before = monitor.monitoring_active,
                   !.raised = "none"]
    /\ UNCHANGED <<pipelineVars, episodeVars, validation, scan>>

\* _handle_file_event, called by a scheduled handler on the observer thread.
HandleFileEvent ==
    /\ monitor.constructed
    /\ monitor.observer = "started" /\ monitor.handlers > 0
    /\ Len(monitor.file_events) < MaxEvents
    /\ \E event \in EventsDelivered :
        monitor' = [monitor EXCEPT
            !.arrivals = Append(@, event),
            !.file_events = Append(@, event),
            !.validation_results =
                IF event.event_type \in {"created", "modified"}
                THEN AutoValidateFile(@, event) ELSE @,
            !.last_call = "_handle_file_event",
            !.active_before = monitor.monitoring_active,
            !.raised = "none"]
    /\ UNCHANGED <<pipelineVars, episodeVars, validation, scan>>

InitMonitor ==
    /\ evaluation_mode = "incremental"
    /\ workspace = [p \in Paths |-> Absent]
    /\ call = NoCall
    /\ report = NoReport
    /\ EpisodeIdle
    /\ validation = NoValidation
    /\ monitor = NewMonitor
    /\ scan = NoScan

NextMonitor == StartMonitoring \/ StopMonitoring \/ HandleFileEvent

SpecMonitor == InitMonitor /\ [][NextMonitor]_vars

----------------------------------------------------------------------------
(* Properties of the watch session, checked under SpecMonitor.             *)

\* C16: start_monitoring on a monitor that is already watching schedules no
\* second handler, raises no error and leaves the monitor watching as it was.
C16_SecondStartIsNoOp ==
    (monitor.last_call = "start_monitoring" /\ monitor.active_before)
    => /\ monitor.handlers = 1
       /\ monitor.raised = "none"
       /\ monitor.monitoring_active /\ monitor.observer = "started"

\* The convention table: (parent directory name, extension, validator).
ConventionTable ==
    {<<"schema", ".json", "schema_validator">>, <<"etl", ".py", "etl_validator">>,
     <<"output", ".csv", "csv_validator">>, <<"ddl", ".sql", "ddl_validator">>}

\* The validator names of the results a sequence of events must add.
RECURSIVE ResultsExpected(_)
ResultsExpected(events) ==
    IF events = <<>> THEN <<>>
    ELSE LET e == Head(events)
             rows == {row \in ConventionTable :
                         /\ e.event_type \in {"created", "modified"}
                         /\ row[1] = e.file_path.parent /\ row[2] = e.file_path.suffix}
         IN  (IF rows = {} THEN <<>> ELSE <<(CHOOSE row \in rows : TRUE)[3]>>)
             \o ResultsExpected(Tail(events))

\* C17: every event handled is in file_events, in arrival order, and the
\* validation results are, in order, one result of the matching validator
\* for each created or modified event of the convention table, and nothing
\* for any other event.
C17_OneResultPerMatchedEvent ==
    /\ monitor.file_events = monitor.arrivals
    /\ [i \in DOMAIN monitor.validation_results |->
            monitor.validation_results[i].validator_name]
       = ResultsExpected(monitor.file_events)

\* C17, witness: two successive modifications of the same schema file, each
\* with its own result, then a deletion that adds none.
C17_Witness ==
    /\ Len(monitor.file_events) = 3
    /\ monitor.file_events[1].event_type = "modified"
    /\ monitor.file_events[1].file_path = [parent |-> "schema", suffix |-> ".json"]
    /\ monitor.file_events[2] = monitor.file_events[1]
    /\ monitor.file_events[3].event_type = "deleted"
    /\ Len(monitor.validation_results) = 2

\* C18: stop_monitoring on a watching monitor stops the observer and clears
\* monitoring_active; on a monitor that is not watching it changes nothing;
\* once the observer is stopped no event and no result is appended.
C18_StopReleasesWatch ==
    [][/\ monitor'.last_call = "stop_monitoring"
          => IF monitor.monitoring_active
             THEN monitor'.observer = "stopped" /\ ~monitor'.monitoring_active
             ELSE MonitorState(monitor') = MonitorState(monitor)
       /\ monitor.observer = "stopped"
          => /\ monitor'.file_events = monitor.file_events
             /\ monitor'.validation_results = monitor.validation_results]_vars

\* C18, witness: a monitor that handled events, stopped while watching.
C18_Witness ==
    /\ monitor.last_call = "stop_monitoring" /\ monitor.active_before
    /\ monitor.observer = "stopped" /\ ~monitor.monitoring_active
    /\ Len(monitor.file_events) > 0 /\ Len(monitor.file_events) < MaxEvents

----------------------------------------------------------------------------
(* FileBasedETLEvaluator.capture_workspace_state, scanning a workspace     *)
(* while the agent's tools write to it.                                    *)

\* An entry under the workspace root: the directory it lies in ("" for the
\* root), its name, and whether the name or the directory starts with a dot.
Entry(parent, name, dot_name, dot_parent) ==
    [parent |-> parent, name |-> name, dot_name |-> dot_name, dot_parent |-> dot_parent]

SchemaDirectory == Entry("", "schema", FALSE, FALSE)
SchemaEntry == Entry("schema", "orders_schema.json", FALSE, FALSE)
DotEnvEntry == Entry("", ".env", TRUE, FALSE)
GitConfigEntry == Entry(".git", "config", FALSE, TRUE)
ByteCodeEntry == Entry("__pycache__", "etl.cpython-311.pyc", FALSE, FALSE)

\* The order in which rglob("*") yields the entries.
EntriesListed == <<SchemaDirectory, SchemaEntry, DotEnvEntry, GitConfigEntry, ByteCodeEntry>>
Entries == {EntriesListed[i] : i \in DOMAIN EntriesListed}

\* What is at an entry: nothing, a directory, a regular file, or a regular
\* file open() refuses.
EntryKinds == {"absent", "directory", "file", "unreadable"}

\* The workspaces scanned.
Trees ==
    {t \in [Entries -> EntryKinds] :
        /\ t[SchemaDirectory] = "directory"
        /\ \A e \in Entries \ {SchemaDirectory} : t[e] # "directory"
        /\ \A e \in Entries \ {SchemaEntry} : t[e] # "unreadable"}

\* workspace_dir.rglob("*"): the entries present, in listing order.
RECURSIVE RGlob(_, _)
RGlob(tree, listed) ==
    IF listed = <<>> THEN <<>>
    ELSE (IF tree[Head(listed)] # "absent" THEN <<Head(listed)>> ELSE <<>>)
         \o RGlob(tree, Tail(listed))

\* file_path.is_file()
IsFile(tree, e) == tree[e] \in {"file", "unreadable"}

\* file_path.stat(): the exception raised, if any.
Stat(tree, e) == IF tree[e] = "absent" THEN "FileNotFoundError" ELSE "none"

\* _hash_file_content: an exception of open() or read() gives "error".
HashFileContent(tree, e) == IF tree[e] = "file" THEN "md5" ELSE "error"

\* capture_workspace_state is entered: files = {}, the iteration begins.
CaptureWorkspaceState ==
    /\ scan.pc = "workspace"
    /\ scan' = [scan EXCEPT !.pc = "is_file", !.pending = RGlob(scan.tree, EntriesListed)]
    /\ UNCHANGED <<pipelineVars, episodeVars, validation, monitor>>

\* The for statement takes the next entry and tests is_file(); after the
\* last entry the FileState is returned.
NextEntry ==
    /\ scan.pc = "is_file"
    /\ scan' =
        IF scan.pending = <<>> THEN [scan EXCEPT !.pc = "returned"]
        ELSE IF IsFile(scan.tree, Head(scan.pending))
        THEN [scan EXCEPT !.pc = "st_size"]
        ELSE [scan EXCEPT !.pending = Tail(@)]
    /\ UNCHANGED <<pipelineVars, episodeVars, validation, monitor>>

\* "size": file_path.stat().st_size
StatSize ==
    /\ scan.pc = "st_size"
    /\ scan' =
        IF Stat(scan.tree, Head(scan.pending)) = "none"
        THEN [scan EXCEPT !.pc = "st_mtime"]
        ELSE [scan EXCEPT !.pc = "raised"]
    /\ UNCHANGED <<pipelineVars, episodeVars, validation, monitor>>

\* "mtime": file_path.stat().st_mtime
StatMtime ==
    /\ scan.pc = "st_mtime"
    /\ scan' =
        IF Stat(scan.tree, Head(scan.pending)) = "none"
        THEN [scan EXCEPT !.pc = "content_hash"]
        ELSE [scan EXCEPT !.pc = "raised"]
    /\ UNCHANGED <<pipelineVars, episodeVars, validation, monitor>>

\* "content_hash": self._hash_file_content(file_path); the entry is stored.
HashAndStore ==
    /\ scan.pc = "content_hash"
    /\ scan' = [scan EXCEPT
            !.files = [@ EXCEPT ![Head(scan.pending)] =
                                    HashFileContent(scan.tree, Head(scan.pending))],
            !.pending = Tail(@),
            !.pc = "is_file"]
    /\ UNCHANGED <<pipelineVars, episodeVars, validation, monitor>>

\* A tool of the agent deletes a file of the workspace during the scan.
WriterDeletes ==
    /\ scan.pc \in {"is_file", "st_size", "st_mtime", "content_hash"}
    /\ scan.deleted = {}
    /\ \E e \in Entries :
        /\ scan.tree[e] \in {"file", "unreadable"}
        /\ scan' = [scan EXCEPT !.tree = [@ EXCEPT ![e] = "absent"],
                                !.deleted = @ \cup {e}]
    /\ UNCHANGED <<pipelineVars, episodeVars, validation, monitor>>

InitSnapshot ==
    /\ evaluation_mode = "incremental"
    /\ workspace = [p \in Paths |-> Absent]
    /\ call = NoCall
    /\ report = NoReport
    /\ EpisodeIdle
    /\ validation = NoValidation
    /\ monitor = NoMonitor
    /\ \E tree \in Trees :
        scan = [pc |-> "workspace", tree |-> tree, at_start |-> tree, pending |-> <<>>,
                files |-> [e \in Entries |-> "none"], deleted |-> {}]

NextSnapshot ==
    \/ CaptureWorkspaceState \/ NextEntry \/ StatSize \/ StatMtime \/ HashAndStore
    \/ WriterDeletes

SpecSnapshot == InitSnapshot /\ [][NextSnapshot]_vars

----------------------------------------------------------------------------
(* Properties of capture_workspace_state, checked under SpecSnapshot.      *)

\* The entries of the snapshot.
Snapshot == {e \in Entries : scan.files[e] # "none"}

\* C19: a scan never raises, also when a file is unreadable or is deleted
\* while the scan runs; a file of the snapshot that could not be read has the
\* content_hash "error".
C19_ScanAlwaysCompletes ==
    /\ scan.pc # "raised"
    /\ \A e \in Snapshot :
        scan.at_start[e] = "unreadable" => scan.files[e] = "error"

\* Byte-compiled caches and dependency caches.
NoiseDirectories == {"__pycache__", "node_modules", ".venv"}

\* C20: a snapshot holds regular files only, no dot-file, no file under a
\* dot-directory and no file under a noise directory.
C20_SnapshotHoldsNoHiddenOrNoiseFile ==
    scan.pc = "returned"
    => \A e \in Snapshot :
        /\ scan.at_start[e] \in {"file", "unreadable"}
        /\ ~e.dot_name /\ ~e.dot_parent
        /\ e.parent \notin NoiseDirectories

----------------------------------------------------------------------------
(* Further properties of FileBasedETLEvaluator, checked under Spec.        *)

\* The component results of the call made, computed from its arguments.
FunctionalityOfCall ==
    EvaluatePipelineFunctionality(workspace, evaluation_mode, call.run)
ConsistencyOfCall == EvaluateCrossFileConsistency(workspace, evaluation_mode)
ReadinessOfCall == EvaluateProductionReadiness(workspace, evaluation_mode)

\* The first ETL script was run and subprocess.run raised.
TimedOut ==
    /\ call.made /\ evaluation_mode = "full_pipeline"
    /\ GlobIn(workspace, "etl", "py") # {}
    /\ call.run = "timeout"

C25_MatchesEveryIndicatorInAnyCase ==
    call.made
    => (DetectPermissionSeeking(call.full_response) <=> call.full_response.phrase # 0)

\* The readable schema files of the workspace with both "entities" and
\* "tables".
AlignableSchemaFiles ==
    {p \in SchemaPaths :
        /\ workspace[p].kind = "schema"
        /\ workspace[p].has_entities /\ workspace[p].has_tables}

\* C26: in incremental mode, with a readable schema file whose entity names
\* overlap with its table keys by at least 50%, the consistency score is 5.0
\* with no issue; with a smaller overlap exactly 1.0 is deducted.
C26_AlignedSchemaFullyConsistent ==
    (call.made /\ evaluation_mode = "incremental")
    => \A p \in AlignableSchemaFiles :
        IF Misaligned(workspace[p])
        THEN ConsistencyOfCall.score = 4000
        ELSE ConsistencyOfCall.score = 5000 /\ ConsistencyOfCall.issues = {}

\* The score list of the call made, when every evaluator has returned.
ScoresOfCall ==
    ScoreList(evaluation_mode, DetectPermissionSeeking(call.full_response),
              EvaluateProcessQuality(call.actions, evaluation_mode).score,
              EvaluateFileOutputs(workspace, evaluation_mode).score,
              FunctionalityOfCall.score, ConsistencyOfCall.score, ReadinessOfCall.score)

\* C30: in both modes, for every workspace and action list, the consistency
\* score is at least 1.0, so the score list has a positive entry and the
\* overall score is never a division by zero.
C30_NoDivisionByZero ==
    call.made
    => /\ ConsistencyOfCall.score >= 1000
       /\ OverallDen(ScoresOfCall) > 0

\* C30, witness: a report whose consistency score is exactly 1.0 (no schema
\* file found, inconsistent names).
C30_Witness ==
    /\ call.made /\ Returned
    /\ report.cross_file_consistency.score = 1000

----------------------------------------------------------------------------
(* A failing stream, checked under SpecEpisode.                            *)

\* The keys under which a report would record that the episode ended in
\* error.
ErrorKeys == {"error", "errors", "episode_error", "ended_in_error", "status"}

\* C24: when the stream failed during the episode, the call still returns a
\* scored report, and the report records that the episode ended in error.
C24_StreamErrorRecordedInReport ==
    \A e \in Episodes :
        (episodes[e].stream_failed /\ episodes[e].pc = "returned")
        => /\ "overall_score" \in episodes[e].evaluation
           /\ episodes[e].evaluation \cap ErrorKeys # {}

----------------------------------------------------------------------------
(* Specification SpecProcess: _evaluate_process_quality applied to the     *)
(* actions of episodes that create files one per tool use, in any order.   *)

\* A file that matches none of the expected patterns.
ReadmeMd == [dir |-> "", parts |-> <<"README">>, ext |-> "md"]

CreatedPaths == ArtifactPaths \cup {ReadmeMd}

\* The orders in which an episode creates up to MaxCreated files.
CreationOrders ==
    UNION {Orderings(S) : S \in {T \in SUBSET CreatedPaths : Cardinality(T) <= MaxCreated}}

InitProcess == InitPipeline

EvaluateProcess ==
    /\ call = NoCall
    /\ \E q \in CreationOrders :
        /\ call' = [made |-> TRUE, actions |-> ActionsCreating(q)]
        /\ report' = EvaluateProcessQuality(ActionsCreating(q), evaluation_mode)
    /\ UNCHANGED <<evaluation_mode, workspace, episodeVars, harnessVars>>

NextProcess == EvaluateProcess

SpecProcess == InitProcess /\ [][NextProcess]_vars

\* The index (from 1) of the first file of the sequence matching pattern i;
\* 0 without one.
FirstMatch(i, seq) ==
    LET hits == {j \in DOMAIN seq : MatchesPattern(i, seq[j])}
    IN  IF hits = {} THEN 0 ELSE CHOOSE h \in hits : \A g \in hits : h <= g

\* C29: in full_pipeline mode, a process-quality score of 5.0 implies that
\* the first schema file, the first etl/*.py file, the first output/*.csv
\* file and the first ddl/*.sql file were created in that order.
C29_FullScoreImpliesExpectedOrder ==
    (call.made /\ evaluation_mode = "full_pipeline" /\ report.score = 5000)
    => LET seq == report.file_creation_sequence
       IN  /\ 0 < FirstMatch(0, seq)
           /\ FirstMatch(0, seq) < FirstMatch(1, seq)
           /\ FirstMatch(1, seq) < FirstMatch(2, seq)
           /\ FirstMatch(2, seq) < FirstMatch(3, seq)

----------------------------------------------------------------------------
(* Specification SpecWatcher: ETLFileWatcher handling the notifications of *)
(* the watch backend for one path, while a writer creates and deletes the  *)
(* file at that path.                                                      *)

\* FileEvent(event_type, file_size): file_size is "size" for an integer and
\* "null" for None.
FileEvent(event_type, file_size) == [event_type |-> event_type, file_size |-> file_size]

\* A watcher with its callback, before any notification: the notifications
\* the backend has handed to the watcher, the FileEvents the callback
\* received, the notification being handled and the place reached in it.
NewWatcher(file) ==
    [constructed |-> TRUE, file |-> file, pc |-> "idle", handling |-> "none",
     notified |-> <<>>, file_events |-> <<>>]

\* RealTimeETLMonitor._handle_file_event, as far as file_events goes.
Callback(w, file_event) ==
    [w EXCEPT !.file_events = Append(@, file_event), !.pc = "idle", !.handling = "none"]

\* on_created, on_modified: the notification arrives for a path that is not
\* a directory and Path(event.src_path).exists() is evaluated; a missing
\* file gives file_size None and the callback is called.
OnCreatedOrModified ==
    /\ monitor.pc = "idle"
    /\ Len(monitor.notified) < MaxEvents
    /\ \E event_type \in {"created", "modified"} :
        LET w == [monitor EXCEPT !.notified = Append(@, event_type)]
        IN  monitor' =
                IF monitor.file = "present"
                THEN [w EXCEPT !.pc = "stat", !.handling = event_type]
                ELSE Callback(w, FileEvent(event_type, "null"))
    /\ UNCHANGED <<pipelineVars, episodeVars, validation, scan>>

\* Path(event.src_path).stat().st_size, after exists() returned True: the
\* size, then the callback; FileNotFoundError when the file is gone, which
\* leaves on_created or on_modified before the callback.  The observer
\* thread that called the handler then either goes on or ends.
StatAfterExists ==
    /\ monitor.pc = "stat"
    /\ IF monitor.file = "present"
       THEN monitor' = Callback(monitor, FileEvent(monitor.handling, "size"))
       ELSE \E pc \in {"idle", "ended"} :
                monitor' = [monitor EXCEPT !.pc = pc, !.handling = "none"]
    /\ UNCHANGED <<pipelineVars, episodeVars, validation, scan>>

\* on_deleted
OnDeleted ==
    /\ monitor.pc = "idle"
    /\ Len(monitor.notified) < MaxEvents
    /\ monitor' = Callback([monitor EXCEPT !.notified = Append(@, "deleted")],
                           FileEvent("deleted", "null"))
    /\ UNCHANGED <<pipelineVars, episodeVars, validation, scan>>

\* The writer deletes the file, or creates it again.
WriterTouches ==
    /\ monitor.pc # "ended"
    /\ monitor' = [monitor EXCEPT !.file = IF @ = "present" THEN "absent" ELSE "present"]
    /\ UNCHANGED <<pipelineVars, episodeVars, validation, scan>>

InitWatcher ==
    /\ evaluation_mode = "incremental"
    /\ workspace = [p \in Paths |-> Absent]
    /\ call = NoCall
    /\ report = NoReport
    /\ EpisodeIdle
    /\ validation = NoValidation
    /\ scan = NoScan
    /\ \E file \in {"present", "absent"} : monitor = NewWatcher(file)

NextWatcher == OnCreatedOrModified \/ StatAfterExists \/ OnDeleted \/ WriterTouches

SpecWatcher == InitWatcher /\ [][NextWatcher]_vars

\* C28: every created or modified notification handed to the watcher gives
\* exactly one FileEvent to the callback, none is dropped, also when the
\* file is deleted between the existence check and the size read: once the
\* watcher has left its handler, the callback has received one FileEvent
\* per notification, in order and of the same type.
C28_OneFileEventPerNotification ==
    monitor.pc \in {"idle", "ended"}
    => /\ Len(monitor.file_events) = Len(monitor.notified)
       /\ \A i \in DOMAIN monitor.file_events :
            monitor.file_events[i].event_type = monitor.notified[i]

----------------------------------------------------------------------------
(* JSONToCSVSchemaEvaluator (src/tests/eval.py): the extraction of the     *)
(* schema-generator's output from an agent response, and its scoring.      *)
(* A response is a sequence of segments: plain text without braces, fenced *)
(* ```json blocks, and JSON objects written without a fence.               *)

\* The scenario's expected_columns.
ExpectedColumns == {"product_id", "quantity", "product_name", "category"}

\* The field names the tables of a schema may list.
ColumnSets ==
    {{}, {"order_id"}, {"product_id", "quantity", "category", "order_id"},
     ExpectedColumns, {"order_id", "state", "city"}}

TableSets == {{}, {"orders"}, {"order_items"}, {"order_items", "shipping_address"}}

\* transformations.csv.array_handling; "" when the key is missing.
ArrayHandlings == {"", "multiple_rows", "json_string"}

\* confidence.overall in hundredths; 0 when the key is missing.
OverallConfidences == {0, 50, 90}

\* A JSON object: its entities (when it has the key), its tables as an object
\* of tables with their field names (when it has the key), the array
\* handling and the confidence.
SchemaObject(he, es, ht, ts, cs, ah, oc) ==
    [kind |-> "object", has_entities |-> he, entities |-> es, has_tables |-> ht,
     tables |-> ts, columns |-> cs, array_handling |-> ah, confidence |-> oc]

SchemaObjects ==
    {SchemaObject(he, es, ht, ts, cs, ah, oc) :
        he \in BOOLEAN, es \in {{}, {"orders"}, {"orders", "items"}},
        ht \in BOOLEAN, ts \in TableSets, cs \in ColumnSets,
        ah \in ArrayHandlings, oc \in OverallConfidences}

\* Normal form: a missing key has no content, a schema without tables has no
\* columns, a present "entities" lists an entity.
SchemaObjectsTried ==
    {o \in SchemaObjects :
        /\ (o.has_entities <=> o.entities # {})
        /\ (~o.has_tables => o.tables = {})
        /\ (o.tables = {} => o.columns = {})}

\* A body between braces that json.loads rejects.
InvalidObject == [kind |-> "invalid"]
\* A fenced body that is a JSON array: it does not start with a brace.
ArrayBody == [kind |-> "array"]
\* Objects without nested braces, written without a fence:
\* {"entities": ["orders"]} and {"entities": ["orders"], "tables": []}.
FlatEntitiesObject == [kind |-> "flat", has_entities |-> TRUE, has_tables |-> FALSE]
FlatTablesArrayObject == [kind |-> "flat", has_entities |-> TRUE, has_tables |-> TRUE]

\* Plain text: whether and how it names the schema-generator.
TextSegments ==
    {[kind |-> "text", mention |-> m] : m \in {"none", "schema-generator", "Schema-Generator"}}
FencedSegments ==
    {[kind |-> "fenced", body |-> b] : b \in SchemaObjectsTried \cup {InvalidObject, ArrayBody}}
BareSegments ==
    {[kind |-> "bare", body |-> b] : b \in {FlatEntitiesObject, FlatTablesArrayObject}}

Segments == TextSegments \cup FencedSegments \cup BareSegments

ResponsesOfSegments == UNION {[1..n -> Segments] : n \in 0..MaxSegments}

\* The bodies of the segments of a kind that satisfy a test, in order.
RECURSIVE BodiesOf(_, _, _)
BodiesOf(response, kind, kinds) ==
    IF response = <<>> THEN <<>>
    ELSE (IF Head(response).kind = kind /\ Head(response).body.kind \in kinds
          THEN <<Head(response).body>> ELSE <<>>)
         \o BodiesOf(Tail(response), kind, kinds)

\* re.findall(r'```json\s*(\{.*?\})\s*```', response, re.DOTALL)
FencedMatches(response) == BodiesOf(response, "fenced", {"object", "invalid"})

\* re.findall(r'\{[^{}]*"entities"[^{}]*\}', response, re.DOTALL)
LooseMatches(response) == BodiesOf(response, "bare", {"flat"})

\* "schema-generator" in response.lower() or "Use the schema-generator" in response
MentionsSchemaGenerator(response) ==
    \E i \in DOMAIN response :
        response[i].kind = "text" /\ response[i].mention # "none"

ExtractionFailure(error, source) ==
    [success |-> FALSE, error |-> error, schema |-> [kind |-> "none"], source |-> source]

\* The match the extraction parses: the first one only.
FirstMatchOnly(json_matches) == Head(json_matches)

\* extract_schema_generator_output
ExtractSchemaGeneratorOutput(response) ==
    LET json_matches == IF FencedMatches(response) # <<>> THEN FencedMatches(response)
                        ELSE LooseMatches(response)
        not_found ==
            IF MentionsSchemaGenerator(response)
            THEN ExtractionFailure(
                    "Schema-generator was called but no structured schema found",
                    "schema-generator")
            ELSE ExtractionFailure("No structured schema found in response", "unknown")
    IN  IF json_matches = <<>> THEN not_found
        ELSE LET schema_data == FirstMatchOnly(json_matches)
             IN  IF schema_data.kind = "invalid"
                 THEN ExtractionFailure("JSON parsing error", "schema-generator")
                 ELSE IF schema_data.has_entities /\ schema_data.has_tables
                      THEN [success |-> TRUE, error |-> "none", schema |-> schema_data,
                            source |-> "schema-generator"]
                      ELSE not_found

\* The lists passed as required_flattening.
RequiredFlatteningsTried == {<<>>, <<"items">>, <<"items", "shipping_address">>}

\* "items" in str(schema).lower(), "shipping_address" in str(schema).lower()
SchemaNames(schema, word) ==
    CASE word = "items" -> "order_items" \in schema.tables \/ "items" \in schema.entities
      [] word = "shipping_address" -> "shipping_address" \in schema.tables

\* No flattening operation recognised.
FlatteningOperationsNone(schema) == {}

\* flattening_operations
FlatteningOperations(schema) ==
    IF schema.array_handling = "multiple_rows"
    THEN {w \in {"items", "shipping_address"} : SchemaNames(schema, w)}
    ELSE {}

\* flattening_score before the min with 5.0
FlatteningScore(schema, required_flattening) ==
    LET required == {required_flattening[i] : i \in DOMAIN required_flattening}
        operations == FlatteningOperations(schema)
    IN  2500 * Cardinality(required \cap operations)
        + (IF "items" \in required \cap operations
              /\ schema.columns \cap {"product_id", "quantity", "category", "product_name"} # {}
           THEN 1000 ELSE 0)
        + (IF "shipping_address" \in required \cap operations
              /\ schema.columns \cap {"state", "city", "zip_code", "country"} # {}
           THEN 1000 ELSE 0)

\* The failed evaluation without its issue.
FailedEvaluationSilent(schema_extraction) ==
    [raised |-> "none", column_accuracy |-> 0, flattening_score |-> 0, intent_score |-> 0,
     overall_score |-> 0, overall_pass |-> FALSE, issues |-> {},
     schema_extraction |-> schema_extraction]

\* The evaluation returned while every score still has its initial value.
FailedEvaluation(schema_extraction) ==
    [raised |-> "none", column_accuracy |-> 0, flattening_score |-> 0, intent_score |-> 0,
     overall_score |-> 0, overall_pass |-> FALSE,
     issues |-> {[issue |-> "Schema extraction failed", error |-> schema_extraction.error]},
     schema_extraction |-> schema_extraction]

\* evaluate_schema_inference; overall_score in units of 10^-4 point.  A
\* "tables" that is not an object has no items(): AttributeError.
EvaluateSchemaInference(response, expected_columns, required_flattening) ==
    LET schema_extraction == ExtractSchemaGeneratorOutput(response)
        schema == schema_extraction.schema
    IN  IF ~schema_extraction.success THEN FailedEvaluation(schema_extraction)
        ELSE IF schema.kind = "flat"
        THEN [raised |-> "AttributeError", schema_extraction |-> schema_extraction]
        ELSE LET found_columns == expected_columns \cap schema.columns
                 column_accuracy ==
                     Min((5000 * Cardinality(found_columns)) \div Cardinality(expected_columns),
                         5000)
                 flattening_score ==
                     IF required_flattening # <<>>
                     THEN Min(FlatteningScore(schema, required_flattening), 5000)
                     ELSE 5000
                 intent_score == schema.confidence * 50
                 overall_score == 4 * column_accuracy + 3 * flattening_score + 3 * intent_score
             IN  [raised |-> "none", column_accuracy |-> column_accuracy,
                  flattening_score |-> flattening_score, intent_score |-> intent_score,
                  overall_score |-> overall_score,
                  overall_pass |-> overall_score >= 35000,
                  issues |->
                      (IF column_accuracy < 3000
                       THEN {[issue |-> "Missing expected columns", error |-> "none"]}
                       ELSE {})
                      \cup (IF flattening_score < 3000
                            THEN {[issue |-> "Insufficient nested structure flattening",
                                   error |-> "none"]}
                            ELSE {})
                      \cup (IF intent_score < 3000
                            THEN {[issue |-> "Low confidence", error |-> "none"]}
                            ELSE {}),
                  schema_extraction |-> schema_extraction]

InitSchemaEval == InitPipeline

EvaluateSchemaResponse ==
    /\ call = NoCall
    /\ \E response \in ResponsesOfSegments, required_flattening \in RequiredFlatteningsTried :
        /\ call' = [made |-> TRUE, response |-> response,
                    required_flattening |-> required_flattening]
        /\ report' = EvaluateSchemaInference(response, ExpectedColumns, required_flattening)
    /\ UNCHANGED <<evaluation_mode, workspace, episodeVars, harnessVars>>

NextSchemaEval == EvaluateSchemaResponse

SpecSchemaEval == InitSchemaEval /\ [][NextSchemaEval]_vars

----------------------------------------------------------------------------
(* Properties of the schema extraction and scoring, checked under          *)
(* SpecSchemaEval.                                                         *)

\* A response without any JSON: plain text only.
NoJsonAtAll(response) == \A i \in DOMAIN response : response[i].kind = "text"

\* The response names the schema-generator, in any letter case.
NamesSchemaGenerator(response) ==
    \E i \in DOMAIN response : response[i].mention \in {"schema-generator", "Schema-Generator"}

\* C21: for a response that contains no JSON at all the extraction fails
\* with one of two distinct reasons, one when the response never names the
\* schema-generator (source "unknown") and another when it does; the
\* evaluation then has every score 0, overall_pass false and an issue
\* naming the reason.
C21_NoJsonFailureReasons ==
    (call.made /\ NoJsonAtAll(call.response))
    => LET extraction == report.schema_extraction
       IN  /\ report.raised = "none"
           /\ ~extraction.success
           /\ IF NamesSchemaGenerator(call.response)
              THEN /\ extraction.error
                      = "Schema-generator was called but no structured schema found"
                   /\ extraction.source = "schema-generator"
              ELSE /\ extraction.error = "No structured schema found in response"
                   /\ extraction.source = "unknown"
           /\ report.column_accuracy = 0 /\ report.flattening_score = 0
           /\ report.intent_score = 0 /\ report.overall_score = 0
           /\ ~report.overall_pass
           /\ report.issues
              = {[issue |-> "Schema extraction failed", error |-> extraction.error]}

\* C21, witness: a text that names the Schema-Generator in capitals and
\* carries no JSON, reported as called without structured output.
C21_Witness ==
    /\ call.made /\ call.response # <<>> /\ NoJsonAtAll(call.response)
    /\ \E i \in DOMAIN call.response : call.response[i].mention = "Schema-Generator"
    /\ report.schema_extraction.source = "schema-generator"
    /\ report.issues # {}

\* The call extracted a schema that sets array_handling to "multiple_rows",
\* defines an order_items table and lists a product column.
FlattenedItemsSchema ==
    /\ call.made /\ call.required_flattening = <<"items">>
    /\ report.schema_extraction.success
    /\ report.schema_extraction.schema.kind = "object"
    /\ report.schema_extraction.schema.array_handling = "multiple_rows"
    /\ "order_items" \in report.schema_extraction.schema.tables
    /\ report.schema_extraction.schema.columns
       \cap {"product_id", "quantity", "category", "product_name"} # {}

BlocksWithBothKeys(response) ==
    SelectSeq(BodiesOf(response, "fenced", {"object", "invalid", "array"}),
              LAMBDA b : b.kind = "object" /\ b.has_entities /\ b.has_tables)

\* C27: for a response with fenced JSON blocks, the extraction succeeds with
\* the first fenced block that has both "entities" and "tables", also when
\* an earlier fenced block lacks a key or is not JSON.
C27_FirstBlockWithBothKeys ==
    (call.made /\ BlocksWithBothKeys(call.response) # <<>>)
    => /\ report.schema_extraction.success
       /\ report.schema_extraction.schema = Head(BlocksWithBothKeys(call.response))
=============================================================================
